---- MODULE Spec2Model ----
(***************************************************************************)
(* Model of the SEER / mage_rtl refinement loops and matrix selector.      *)
(*                                                                         *)
(*  - the three editors of src/src/mage_rtl (RTLEditor, RTLCoverageEditor, *)
(*    TBCoverageEditor): their localized find-and-replace action, the      *)
(*    accept/reject judgement and the chat loop;                           *)
(*  - TopAgent.run_instance of src/src/mage_rtl/agent.py: candidate        *)
(*    generation and the RTL x testbench simulation matrix.                *)
(*                                                                         *)
(* Text is a sequence of one-character strings.  The LLM, the syntax      *)
(* checker and the simulator are external: every call returns a value     *)
(* drawn from a small set.                                                 *)
(***************************************************************************)
EXTENDS Integers, Sequences, FiniteSets, TLC

\* ------------------------------------------------------------------------
\* Bounds of the model
\* ------------------------------------------------------------------------
\* longest artifact, and longest old_content, of a direct call of the edit action
MaxLen == 2
\* largest mismatch count the simulator reports
MaxMismatch == 2
\* largest testbench_num and rtl_num run_instance is called with
MaxCandidates == 2
\* number of direct calls of the edit action made on one object
MaxCalls == 1
\* number of _run calls made on the same output directory
MaxRuns == 2
\* number of tasks a batch driver finds
MaxTasks == 2

\* ------------------------------------------------------------------------
\* Program constants
\* ------------------------------------------------------------------------
TAB == "\t"
SP == " "
NL == "\n"
\* str.expandtabs(4)
TabSize == 4
\* coverage percentages are kept in units of 0.0001 %
Full == 1000000
\* abs(coverage - 100.0) < 0.001
Tol == 10
\* Python's None for the tracked metrics
None == -1
\* float("inf"), the initial min_mismatch
Inf == -2

RTLEditor == "RTLEditor"
RTLCoverageEditor == "RTLCoverageEditor"
TBCoverageEditor == "TBCoverageEditor"
Editors == {RTLEditor, RTLCoverageEditor, TBCoverageEditor}

\* variant: every loop runs one round more
max_trials_one_more(e) ==
  IF e = RTLEditor THEN 16 ELSE IF e = RTLCoverageEditor THEN 4 ELSE 6

max_trials(e) ==
  IF e = RTLEditor THEN 15 ELSE IF e = RTLCoverageEditor THEN 3 ELSE 5

succeed_history_max_length(e) ==
  IF e = RTLEditor THEN 10 ELSE IF e = RTLCoverageEditor THEN 2 ELSE 3

fail_history_max_length(e) ==
  IF e = RTLEditor THEN 6 ELSE IF e = RTLCoverageEditor THEN 2 ELSE 3

\* ------------------------------------------------------------------------
\* Python string operations used by the edit action
\* ------------------------------------------------------------------------
Spaces(n) == [k \in 1..n |-> SP]

RECURSIVE ExpandFrom(_, _, _)
\* str.expandtabs(TabSize) of s from position k on, the column counter at col
ExpandFrom(s, k, col) ==
  IF k > Len(s) THEN <<>>
  ELSE IF s[k] = TAB
       THEN LET incr == TabSize - (col % TabSize)
            IN  Spaces(incr) \o ExpandFrom(s, k + 1, col + incr)
       ELSE IF s[k] = NL
            THEN <<s[k]>> \o ExpandFrom(s, k + 1, 0)
            ELSE <<s[k]>> \o ExpandFrom(s, k + 1, col + 1)

expandtabs(s) == ExpandFrom(s, 1, 0)

MatchAt(s, sub, k) ==
  /\ k + Len(sub) - 1 <= Len(s)
  /\ SubSeq(s, k, k + Len(sub) - 1) = sub

RECURSIVE CountFrom(_, _, _)
\* non-overlapping matches of a non-empty sub in s, scanning from k
CountFrom(s, sub, k) ==
  IF k + Len(sub) - 1 > Len(s) THEN 0
  ELSE IF MatchAt(s, sub, k)
       THEN 1 + CountFrom(s, sub, k + Len(sub))
       ELSE CountFrom(s, sub, k + 1)

\* str.count(sub)
count(s, sub) == IF sub = <<>> THEN Len(s) + 1 ELSE CountFrom(s, sub, 1)

RECURSIVE ReplaceFrom(_, _, _, _)
ReplaceFrom(s, old, new, k) ==
  IF k > Len(s) THEN <<>>
  ELSE IF MatchAt(s, old, k)
       THEN new \o ReplaceFrom(s, old, new, k + Len(old))
       ELSE <<s[k]>> \o ReplaceFrom(s, old, new, k + 1)

RECURSIVE Interleave(_, _, _)
Interleave(s, new, k) ==
  IF k > Len(s) THEN new
  ELSE new \o <<s[k]>> \o Interleave(s, new, k + 1)

\* str.replace(old, new): every non-overlapping match, left to right
replace(s, old, new) ==
  IF old = <<>> THEN Interleave(s, new, 1) ELSE ReplaceFrom(s, old, new, 1)

\* ------------------------------------------------------------------------
\* Inputs drawn from the environment
\* ------------------------------------------------------------------------
Alphabet == {"a", TAB}

RECURSIVE Strs(_)
\* every text over Alphabet of length at most n
Strs(n) ==
  IF n = 0 THEN {<<>>}
  ELSE LET shorter == Strs(n - 1)
       IN  shorter \cup {Append(s, c) : s \in shorter, c \in Alphabet}

\* the artifacts and arguments of direct calls of the edit action
CallFiles == Strs(MaxLen)
CallProposals == [old_content : Strs(MaxLen), new_content : {<<>>, <<"a">>}]

\* the artifacts a chat is started on and the edits the LLM proposes in it
StartFiles == {<<"a">>, <<TAB, "a">>, <<"a", "a">>}
Proposals == [old_content : {<<"a">>, <<TAB>>}, new_content : {<<>>, <<"a", "a">>}]

MismatchValues == 0..MaxMismatch
\* 50 %, a value within the 0.001 tolerance of 100 %, and 100 %
CovValues == {Full \div 2, Full - (Tol \div 2), Full}

\* what one run of the external checker and simulator can produce
OracleOutcomes(e) ==
  {[status |-> st, is_sim_pass |-> FALSE, sim_mismatch_cnt |-> 0,
    line_coverage |-> 0, branch_coverage |-> 0] : st \in {"exception", "syntax_fail"}}
  \cup
  (IF e = RTLEditor
   THEN [status : {"checked"}, is_sim_pass : BOOLEAN, sim_mismatch_cnt : MismatchValues,
         line_coverage : {0}, branch_coverage : {0}]
   ELSE IF e = RTLCoverageEditor
   THEN [status : {"checked"}, is_sim_pass : BOOLEAN, sim_mismatch_cnt : {0},
         line_coverage : CovValues, branch_coverage : {Full \div 2}]
   ELSE [status : {"checked"}, is_sim_pass : BOOLEAN, sim_mismatch_cnt : {0},
         line_coverage : CovValues, branch_coverage : CovValues])

\* ------------------------------------------------------------------------
\* State of one editor object and of its on-disk working copy
\* ------------------------------------------------------------------------
VARIABLES
  ed,                    \* which editor class the object is
  pc,                    \* "new", "loop", "exit", "done", "call", "idle"
  outcome,               \* how chat ended: "none", "returned", "raised"
  file,                  \* the artifact on disk (rtl.sv, or tb.sv for the testbench editor)
  history,               \* self.history
  is_done,               \* self.is_done
  last_mismatch_cnt,     \* RTLEditor.last_mismatch_cnt
  last_coverage,         \* RTLCoverageEditor.last_coverage
  last_line_coverage,    \* TBCoverageEditor.last_line_coverage
  last_branch_coverage,  \* TBCoverageEditor.last_branch_coverage
  i,                     \* round index of the for loop in chat
  succeed_history,       \* chat's succeed_history
  fail_history,          \* chat's fail_history
  action_input,          \* the arguments of a pending direct call of the edit action
  action_output,         \* what the latest action returned
  is_pass,               \* first component of chat's return value
  result,                \* second component of chat's return value
  llm_calls,             \* number of generate() calls made by chat
  committed,             \* the starting artifact, then the result of each accepted edit
  final_check,           \* the check chat runs after the loop (testbench editor)
  init_checks,           \* the checks chat ran before its loop, in order
  evals,                 \* the oracle evaluations of the latest step, each the calls it made
  calls                  \* number of direct calls of the edit action so far

editor_vars ==
  <<ed, pc, outcome, file, history, is_done, last_mismatch_cnt, last_coverage,
    last_line_coverage, last_branch_coverage, i, succeed_history, fail_history,
    action_input, action_output, is_pass, result, llm_calls, committed,
    final_check, init_checks, evals, calls>>

\* ------------------------------------------------------------------------
\* State of one TopAgent.run_instance call and of its output directory
\* ------------------------------------------------------------------------
VARIABLES
  ri_pc,           \* "gen_tb", "gen_rtl", "sim", "returned", "raised"
  testbench_num,   \* argument of run_instance
  rtl_num,         \* argument of run_instance
  g,               \* index of the generation loop under way
  testbenches,     \* the list testbenches
  rtl_codes,       \* the list rtl_codes
  out_files,       \* the files tb_{i}.sv, rtl_{i}.sv, if.sv, rtl_best.sv written so far
  mi,              \* index i of the outer simulation loop
  mj,              \* index j of the inner simulation loop
  sim_row,         \* the row under construction
  sim_results,     \* the matrix
  best_rtl_idx,
  best_tb_idx,
  min_mismatch,
  ws_rtl,          \* content of rtl.sv in the shared workspace
  ws_tb,           \* content of tb.sv in the shared workspace
  sim_calls,       \* every simulator run: loop indices, the pair it ran on, its count
  gen_verdicts,    \* is_syntax_pass of every rtl_gen.chat call, by slot
  best_sim_pass,   \* is_sim_pass the simulator reported for the best pairing held
  ri_ret           \* the value run_instance returned

matrix_vars ==
  <<ri_pc, testbench_num, rtl_num, g, testbenches, rtl_codes, out_files, mi, mj,
    sim_row, sim_results, best_rtl_idx, best_tb_idx, min_mismatch, ws_rtl, ws_tb,
    sim_calls, gen_verdicts, best_sim_pass, ri_ret>>

\* ------------------------------------------------------------------------
\* State of the TopAgent._run calls made on one task's output directory
\* ------------------------------------------------------------------------
VARIABLES
  run_pc,          \* "idle", "ready", "pipeline", "done", "propagated"
  tag,             \* properly_finished.tag exists in output_dir_per_run
  is_ablation,     \* self.is_ablation
  run_ret,         \* the value the latest _run returned
  run_count        \* number of _run calls made so far

run_vars == <<run_pc, tag, is_ablation, run_ret, run_count>>

\* ------------------------------------------------------------------------
\* State of one batch driver (a main() of src/exp) and of the components it runs
\* ------------------------------------------------------------------------
VARIABLES
  driver,          \* which main() is running
  b_pc,            \* "idle", "loop", "finished", or the exception that ended main
  task,            \* index of the next task of the batch
  step,            \* the next component call within the task (prompting_top_agent)
  done_tasks,      \* the tasks whose result was written
  attempted,       \* the tasks whose LLM call was made
  gen_rets,        \* what the generator calls of the current task returned, in order
  token_cnt,       \* the count held by the classifier's token counter
  session_cnt,     \* tokens consumed since the latest run() entry
  logged_cnt,      \* the count log_token_stats() reported at the end of the latest run()
  visit,           \* the task ids in the order os.walk yields their prompt files
  summary,         \* the list summary of check_circuit_type.main
  summary_file     \* the lines of summary_circuit_type_casestudy.txt

batch_vars ==
  <<driver, b_pc, task, step, done_tasks, attempted, gen_rets, token_cnt,
    session_cnt, logged_cnt, visit, summary, summary_file>>

\* ------------------------------------------------------------------------
\* State of the stand-alone experiment tools of src/exp: the ambiguity fix loop,
\* the consistency checker and the golden-model harness
\* ------------------------------------------------------------------------
VARIABLES
  fx_pc,           \* position in the ambiguity fix loop
  original_spec,   \* the spec text the loop was started with
  spec_text,       \* the spec text the loop currently holds
  fix_iter,        \* number of fix iterations made
  classification,  \* what the latest ambiguous_classifier.run returned
  persisted,       \* the spec text the loop wrote out
  cc_pc,           \* position in ConsistencyChecker.chat
  cc_content,      \* the lines of the LLM response
  cc_ret,          \* what chat returned
  h_pc,            \* position in the harness
  stimulus_data,   \* the value json.load read from stimulus.json
  tb_outputs       \* the value the harness printed

fix_vars == <<fx_pc, original_spec, spec_text, fix_iter, classification, persisted>>
cc_vars == <<cc_pc, cc_content, cc_ret>>
harness_vars == <<h_pc, stimulus_data, tb_outputs>>
aux_vars == <<fix_vars, cc_vars, harness_vars>>

vars == <<editor_vars, matrix_vars, run_vars, batch_vars, aux_vars>>

NoInput == [old_content |-> <<>>, new_content |-> <<>>, command |-> "none"]
NoOutput == [kind |-> "none", is_action_executed |-> FALSE,
             is_syntax_pass |-> FALSE, is_sim_pass |-> FALSE, sim_mismatch_cnt |-> 0,
             line_coverage |-> 0, branch_coverage |-> 0, error_msg |-> ""]
NoResult == <<"none">>
NoCheck == [is_syntax_pass |-> FALSE, is_sim_pass |-> FALSE, sim_mismatch_cnt |-> 0,
            line_coverage |-> 0, branch_coverage |-> 0, error_msg |-> "none"]

\* variant: only exactly 100 % counts as the goal
GoalMet_exact(c) == c = Full

\* abs(coverage - 100.0) < 0.001
GoalMet(c) == (IF c >= Full THEN c - Full ELSE Full - c) < Tol

\* replace_sanity_check of every editor, on an oracle run that did not raise
replace_sanity_check(o) ==
  IF o.status = "syntax_fail"
  THEN [is_syntax_pass |-> FALSE, is_sim_pass |-> FALSE, sim_mismatch_cnt |-> 0,
        line_coverage |-> 0, branch_coverage |-> 0, error_msg |-> "syntax"]
  ELSE [is_syntax_pass |-> TRUE, is_sim_pass |-> o.is_sim_pass,
        sim_mismatch_cnt |-> o.sim_mismatch_cnt,
        line_coverage |-> o.line_coverage, branch_coverage |-> o.branch_coverage,
        error_msg |-> IF o.is_sim_pass THEN "" ELSE "sim"]

\* ------------------------------------------------------------------------
\* judge_replace_action_execution: the accept / reject decision.
\* ret is the sanity check of the candidate already written to disk;
\* rollback says that old_file_content is written back.
\* ------------------------------------------------------------------------
\* variant: a mismatch count equal to the previous one is rejected
RTLEditor_judge_strict(ret, last, done) ==
  IF ~ret.is_syntax_pass
       \/ (last # None /\ ret.sim_mismatch_cnt >= last)
       \/ (ret.sim_mismatch_cnt = 0 /\ ~ret.is_sim_pass)
  THEN [is_action_executed |-> FALSE, rollback |-> TRUE, last |-> last,
        is_done |-> done, error_msg |-> "rejected"]
  ELSE [is_action_executed |-> TRUE, rollback |-> FALSE, last |-> ret.sim_mismatch_cnt,
        is_done |-> IF ret.sim_mismatch_cnt = 0 THEN TRUE ELSE done,
        error_msg |-> ret.error_msg]

\* variant: the mismatch count is not compared with the previous one
RTLEditor_judge_uncompared(ret, last, done) ==
  IF ~ret.is_syntax_pass \/ (ret.sim_mismatch_cnt = 0 /\ ~ret.is_sim_pass)
  THEN [is_action_executed |-> FALSE, rollback |-> TRUE, last |-> last,
        is_done |-> done, error_msg |-> "rejected"]
  ELSE [is_action_executed |-> TRUE, rollback |-> FALSE, last |-> ret.sim_mismatch_cnt,
        is_done |-> IF ret.sim_mismatch_cnt = 0 THEN TRUE ELSE done,
        error_msg |-> ret.error_msg]

RTLEditor_judge_replace_action_execution(ret, last, done) ==
  IF ~ret.is_syntax_pass
  THEN [is_action_executed |-> FALSE, rollback |-> TRUE, last |-> last,
        is_done |-> done, error_msg |-> "syntax"]
  ELSE IF last # None /\ ret.sim_mismatch_cnt > last
  THEN [is_action_executed |-> FALSE, rollback |-> TRUE, last |-> last,
        is_done |-> done, error_msg |-> "mismatch_increased"]
  ELSE IF ret.sim_mismatch_cnt = 0 /\ ~ret.is_sim_pass
  THEN [is_action_executed |-> FALSE, rollback |-> TRUE, last |-> last,
        is_done |-> done, error_msg |-> "zero_but_sim_failed"]
  ELSE [is_action_executed |-> TRUE, rollback |-> FALSE, last |-> ret.sim_mismatch_cnt,
        is_done |-> IF ret.sim_mismatch_cnt = 0 THEN TRUE ELSE done,
        error_msg |-> ret.error_msg]

\* variant: a line coverage equal to the recorded one is accepted
RTLCoverageEditor_judge_accepts_equal(ret, last, done) ==
  IF ~ret.is_syntax_pass
  THEN [is_action_executed |-> FALSE, rollback |-> TRUE, last |-> last,
        is_done |-> done, error_msg |-> "syntax"]
  ELSE IF ~ret.is_sim_pass
  THEN [is_action_executed |-> FALSE, rollback |-> TRUE, last |-> last,
        is_done |-> done, error_msg |-> "sim"]
  ELSE IF last # None /\ ret.line_coverage < last
  THEN [is_action_executed |-> FALSE, rollback |-> TRUE, last |-> last,
        is_done |-> done, error_msg |-> "not_improved"]
  ELSE [is_action_executed |-> TRUE, rollback |-> FALSE, last |-> ret.line_coverage,
        is_done |-> IF GoalMet(ret.line_coverage) THEN TRUE ELSE done,
        error_msg |-> ""]

RTLCoverageEditor_judge_replace_action_execution(ret, last, done) ==
  IF ~ret.is_syntax_pass
  THEN [is_action_executed |-> FALSE, rollback |-> TRUE, last |-> last,
        is_done |-> done, error_msg |-> "syntax"]
  ELSE IF ~ret.is_sim_pass
  THEN [is_action_executed |-> FALSE, rollback |-> TRUE, last |-> last,
        is_done |-> done, error_msg |-> "sim"]
  ELSE IF last # None /\ ret.line_coverage <= last
  THEN [is_action_executed |-> FALSE, rollback |-> TRUE, last |-> last,
        is_done |-> done, error_msg |-> "not_improved"]
  ELSE [is_action_executed |-> TRUE, rollback |-> FALSE, last |-> ret.line_coverage,
        is_done |-> IF GoalMet(ret.line_coverage) THEN TRUE ELSE done,
        error_msg |-> ""]

\* variant: line coverage has to grow strictly
TBCoverageEditor_judge_strict_line(ret, last_line, last_branch, done) ==
  IF /\ ret.is_syntax_pass
     /\ ret.is_sim_pass
     /\ (last_line = None \/ ret.line_coverage > last_line)
     /\ (last_branch = None \/ ret.branch_coverage >= last_branch)
  THEN [is_action_executed |-> TRUE, rollback |-> FALSE,
        last_line |-> ret.line_coverage, last_branch |-> ret.branch_coverage,
        is_done |-> IF GoalMet(ret.line_coverage) /\ GoalMet(ret.branch_coverage)
                    THEN TRUE ELSE done,
        error_msg |-> ""]
  ELSE [is_action_executed |-> FALSE, rollback |-> TRUE, last_line |-> last_line,
        last_branch |-> last_branch, is_done |-> done, error_msg |-> "rejected"]

\* variant: a candidate whose simulation fails is rejected but left on disk
TBCoverageEditor_judge_no_rollback(ret, last_line, last_branch, done) ==
  IF /\ ret.is_syntax_pass
     /\ ret.is_sim_pass
     /\ (last_line = None \/ ret.line_coverage >= last_line)
     /\ (last_branch = None \/ ret.branch_coverage >= last_branch)
  THEN [is_action_executed |-> TRUE, rollback |-> FALSE,
        last_line |-> ret.line_coverage, last_branch |-> ret.branch_coverage,
        is_done |-> IF GoalMet(ret.line_coverage) /\ GoalMet(ret.branch_coverage)
                    THEN TRUE ELSE done,
        error_msg |-> ""]
  ELSE [is_action_executed |-> FALSE, rollback |-> ~ret.is_syntax_pass,
        last_line |-> last_line, last_branch |-> last_branch, is_done |-> done,
        error_msg |-> "rejected"]

TBCoverageEditor_judge_replace_action_execution(ret, last_line, last_branch, done) ==
  LET line_improved == last_line = None \/ ret.line_coverage >= last_line
      branch_improved == last_branch = None \/ ret.branch_coverage >= last_branch
  IN
  IF ~ret.is_syntax_pass
  THEN [is_action_executed |-> FALSE, rollback |-> TRUE, last_line |-> last_line,
        last_branch |-> last_branch, is_done |-> done, error_msg |-> "syntax"]
  ELSE IF ~ret.is_sim_pass
  THEN [is_action_executed |-> FALSE, rollback |-> TRUE, last_line |-> last_line,
        last_branch |-> last_branch, is_done |-> done, error_msg |-> "sim"]
  ELSE IF line_improved /\ branch_improved
  THEN [is_action_executed |-> TRUE, rollback |-> FALSE,
        last_line |-> ret.line_coverage, last_branch |-> ret.branch_coverage,
        is_done |-> IF GoalMet(ret.line_coverage) /\ GoalMet(ret.branch_coverage)
                    THEN TRUE ELSE done,
        error_msg |-> ""]
  ELSE [is_action_executed |-> FALSE, rollback |-> TRUE, last_line |-> last_line,
        last_branch |-> last_branch, is_done |-> done, error_msg |-> "not_improved"]

\* the uniqueness test on old_content: "run" lets the replacement go ahead
RTLEditor_occurrence_check(occurrences) ==
  IF occurrences = 0 THEN "not_found"
  ELSE IF occurrences > 1 THEN "multiple" ELSE "run"

\* the "elif occurrences > 1" branch is commented out in this editor
RTLCoverageEditor_occurrence_check(occurrences) ==
  IF occurrences = 0 THEN "not_found" ELSE "run"

TBCoverageEditor_occurrence_check(occurrences) ==
  IF occurrences = 0 THEN "not_found"
  ELSE IF occurrences > 1 THEN "multiple" ELSE "run"

occurrence_check(e, occurrences) ==
  IF e = RTLEditor THEN RTLEditor_occurrence_check(occurrences)
  ELSE IF e = RTLCoverageEditor THEN RTLCoverageEditor_occurrence_check(occurrences)
  ELSE TBCoverageEditor_occurrence_check(occurrences)

\* what the action reads from disk and keeps for a rollback
old_file_content_of(f) == expandtabs(f)

\* the early return of the action when the uniqueness test fails
NotExecuted(why) ==
  [kind |-> why, is_action_executed |-> FALSE,
   is_syntax_pass |-> FALSE, is_sim_pass |-> FALSE, sim_mismatch_cnt |-> 0,
   line_coverage |-> 0, branch_coverage |-> 0, error_msg |-> why]

\* the dictionary judge_replace_action_execution returns
Judged(ret, executed, msg) ==
  [kind |-> "judged", is_action_executed |-> executed,
   is_syntax_pass |-> ret.is_syntax_pass, is_sim_pass |-> ret.is_sim_pass,
   sim_mismatch_cnt |-> ret.sim_mismatch_cnt,
   line_coverage |-> ret.line_coverage, branch_coverage |-> ret.branch_coverage,
   error_msg |-> msg]

\* variant: the simulation is run whatever the syntax check said
oracle_calls_sim_always(o) ==
  {<<[call |-> "check_syntax", result |-> IF o.status = "syntax_fail" THEN "fail" ELSE "pass"],
     [call |-> "review", result |-> IF o.status = "exception" THEN "raised" ELSE "returned"]>>}

\* the external calls one replace_sanity_check makes, in order, for the oracle
\* run o: check_syntax, then the simulation if the syntax check passed; a run
\* that raises does so in either call
oracle_calls(o) ==
  IF o.status = "syntax_fail"
  THEN {<<[call |-> "check_syntax", result |-> "fail"]>>}
  ELSE IF o.status = "exception"
  THEN {<<[call |-> "check_syntax", result |-> "raised"]>>,
        <<[call |-> "check_syntax", result |-> "pass"],
          [call |-> "review", result |-> "raised"]>>}
  ELSE {<<[call |-> "check_syntax", result |-> "pass"],
          [call |-> "review", result |-> "returned"]>>}

\* variant: the candidate is evaluated whatever the uniqueness test said
EvalsOf_unconditional(check, made) == <<made>>

\* the evaluations an edit action makes: none after an early return
EvalsOf(check, made) == IF check # "run" THEN <<>> ELSE <<made>>

\* variant: an oracle exception is reported like a judged edit
Raised_as_judged == [NoOutput EXCEPT !.kind = "judged"]

\* the oracle raised while the candidate was on disk: nothing is returned
Raised == [NoOutput EXCEPT !.kind = "exception"]

\* ------------------------------------------------------------------------
\* The advertised edit action of the object (replace_content_by_matching,
\* remove_content_redundancy, enhance_testbench) called with the arguments p,
\* with o the outcome of the oracle run it makes.
\* ------------------------------------------------------------------------
EditAction(p, o) ==
  LET old_file_content == old_file_content_of(file)
      old_content == expandtabs(p.old_content)
      new_content == expandtabs(p.new_content)
      occurrences == count(old_file_content, old_content)
      check == occurrence_check(ed, occurrences)
      new_file_content == replace(old_file_content, old_content, new_content)
      ret == replace_sanity_check(o)
  IN
  IF check # "run"
  THEN /\ action_output' = NotExecuted(check)
       /\ UNCHANGED <<file, committed, is_done, last_mismatch_cnt, last_coverage,
                      last_line_coverage, last_branch_coverage>>
  ELSE IF o.status = "exception"
  THEN /\ file' = new_file_content
       /\ action_output' = Raised
       /\ UNCHANGED <<committed, is_done, last_mismatch_cnt, last_coverage,
                      last_line_coverage, last_branch_coverage>>
  ELSE IF ed = RTLEditor
  THEN LET j == RTLEditor_judge_replace_action_execution(ret, last_mismatch_cnt, is_done)
       IN  /\ file' = IF j.rollback THEN old_file_content ELSE new_file_content
           /\ committed' = IF j.is_action_executed THEN new_file_content ELSE committed
           /\ action_output' = Judged(ret, j.is_action_executed, j.error_msg)
           /\ last_mismatch_cnt' = j.last
           /\ is_done' = j.is_done
           /\ UNCHANGED <<last_coverage, last_line_coverage, last_branch_coverage>>
  ELSE IF ed = RTLCoverageEditor
  THEN LET j == RTLCoverageEditor_judge_replace_action_execution(ret, last_coverage, is_done)
       IN  /\ file' = IF j.rollback THEN old_file_content ELSE new_file_content
           /\ committed' = IF j.is_action_executed THEN new_file_content ELSE committed
           /\ action_output' = Judged(ret, j.is_action_executed, j.error_msg)
           /\ last_coverage' = j.last
           /\ is_done' = j.is_done
           /\ UNCHANGED <<last_mismatch_cnt, last_line_coverage, last_branch_coverage>>
  ELSE LET j == TBCoverageEditor_judge_replace_action_execution(
                  ret, last_line_coverage, last_branch_coverage, is_done)
       IN  /\ file' = IF j.rollback THEN old_file_content ELSE new_file_content
           /\ committed' = IF j.is_action_executed THEN new_file_content ELSE committed
           /\ action_output' = Judged(ret, j.is_action_executed, j.error_msg)
           /\ last_line_coverage' = j.last_line
           /\ last_branch_coverage' = j.last_branch
           /\ is_done' = j.is_done
           /\ UNCHANGED <<last_mismatch_cnt, last_coverage>>

\* the evaluations the edit action makes when called with p in the current state
ActionEvals(p, o) ==
  LET check == occurrence_check(ed, count(old_file_content_of(file), expandtabs(p.old_content)))
  IN  {EvalsOf(check, made) : made \in oracle_calls(o)}

\* the state of the run_instance variables while no run_instance is modelled
MatrixIdle ==
  /\ ri_pc = "idle"
  /\ testbench_num = 0
  /\ rtl_num = 0
  /\ g = 0
  /\ testbenches = <<>>
  /\ rtl_codes = <<>>
  /\ out_files = {}
  /\ mi = 0
  /\ mj = 0
  /\ sim_row = <<>>
  /\ sim_results = <<>>
  /\ best_rtl_idx = 0
  /\ best_tb_idx = 0
  /\ min_mismatch = Inf
  /\ ws_rtl = <<>>
  /\ ws_tb = <<>>
  /\ sim_calls = <<>>
  /\ gen_verdicts = <<>>
  /\ best_sim_pass = FALSE
  /\ ri_ret = <<>>

\* the state of the _run variables while no _run is modelled
RunIdle ==
  /\ run_pc = "idle"
  /\ tag = FALSE
  /\ is_ablation = FALSE
  /\ run_ret = <<>>
  /\ run_count = 0

\* the state of the batch variables while no batch driver is modelled
BatchIdle ==
  /\ driver = "none"
  /\ b_pc = "idle"
  /\ task = 0
  /\ step = [name |-> "none", trial |-> 0]
  /\ done_tasks = {}
  /\ attempted = {}
  /\ gen_rets = <<>>
  /\ token_cnt = 0
  /\ session_cnt = 0
  /\ logged_cnt = 0
  /\ visit = <<>>
  /\ summary = <<>>
  /\ summary_file = <<>>

\* the state of the fix-loop variables while no fix loop is modelled
FixIdle ==
  /\ fx_pc = "idle"
  /\ original_spec = <<>>
  /\ spec_text = <<>>
  /\ fix_iter = 0
  /\ classification = "none"
  /\ persisted = <<>>

\* the state of the consistency-checker variables while no chat is modelled
ConsistencyIdle ==
  /\ cc_pc = "idle"
  /\ cc_content = <<>>
  /\ cc_ret = <<>>

\* the state of the harness variables while no harness run is modelled
HarnessIdle ==
  /\ h_pc = "idle"
  /\ stimulus_data = <<>>
  /\ tb_outputs = <<>>

ToolsIdle == FixIdle /\ ConsistencyIdle /\ HarnessIdle

DriversIdle == RunIdle /\ BatchIdle /\ ToolsIdle

\* ------------------------------------------------------------------------
\* chat: entry, rounds, return
\* ------------------------------------------------------------------------
\* the placeholders of INIT_EDITION_PROMPT
InitPromptFields(e) == {"testbench", "coverage_report", "rtl_code"}

\* the keyword arguments get_init_prompt_messages passes to str.format
InitPromptArgs(e) ==
  IF e = RTLEditor THEN {"input_spec", "generated_tb", "sim_failed_log"}
  ELSE {"testbench", "coverage_report", "rtl_code"}

\* str.format raises KeyError on a placeholder that is not supplied
get_init_prompt_messages_ok(e) == InitPromptFields(e) \subseteq InitPromptArgs(e)

\* the keys of the dictionary replace_sanity_check returns
SanityCheckKeys ==
  {"is_syntax_pass", "is_sim_pass", "error_msg", "line_coverage", "branch_coverage"}

\* the key chat reads the baseline coverage from
BaselineKey(e) == IF e = RTLCoverageEditor THEN "coverage" ELSE "line_coverage"

InitMessages == <<"system", "init">>

NewContents(round) ==
  <<[round |-> round, kind |-> "response"], [round |-> round, kind |-> "action_output"]>>

\* variant: the histories are never trimmed
LastN_untrimmed(s, n) == s

\* variant: the oldest entries are the ones kept
LastN_keeps_oldest(s, n) == IF Len(s) > n THEN SubSeq(s, 1, n) ELSE s

\* s[-n:]
LastN(s, n) == IF Len(s) > n THEN SubSeq(s, Len(s) - n + 1, Len(s)) ELSE s

Raise ==
  /\ pc' = "done"
  /\ outcome' = "raised"

Return(pass, artifact) ==
  /\ pc' = "done"
  /\ outcome' = "returned"
  /\ is_pass' = pass
  /\ result' = artifact

EnterLoop ==
  /\ history' = InitMessages
  /\ pc' = "loop"
  /\ UNCHANGED <<outcome, is_pass, result>>

RTLEditor_chat ==
  /\ UNCHANGED <<run_vars, batch_vars, aux_vars, matrix_vars, final_check, init_checks>>
  /\ evals' = <<>>
  /\ ed = RTLEditor
  /\ pc = "new"
  /\ \E sim_mismatch_cnt \in MismatchValues :
       /\ last_mismatch_cnt' = sim_mismatch_cnt
       /\ committed' = file
       /\ IF get_init_prompt_messages_ok(ed)
          THEN EnterLoop
          ELSE /\ Raise
               /\ history' = <<>>
               /\ UNCHANGED <<is_pass, result>>
  /\ UNCHANGED <<ed, file, is_done, last_coverage, last_line_coverage,
                 last_branch_coverage, i, succeed_history, fail_history,
                 action_input, action_output, llm_calls, calls>>

RTLCoverageEditor_chat ==
  /\ UNCHANGED <<run_vars, batch_vars, aux_vars, matrix_vars, final_check>>
  /\ ed = RTLCoverageEditor
  /\ pc = "new"
  /\ \E rtl_code \in StartFiles, o \in OracleOutcomes(ed) :
       LET initial_check == replace_sanity_check(o) IN
       /\ file' = rtl_code
       /\ committed' = rtl_code
       /\ init_checks' = IF o.status = "exception" THEN <<>> ELSE <<initial_check>>
       /\ evals' \in {<<made>> : made \in oracle_calls(o)}
       /\ IF o.status = "exception" \/ BaselineKey(ed) \notin SanityCheckKeys
          THEN /\ Raise
               /\ history' = <<>>
               /\ UNCHANGED <<last_coverage, is_pass, result>>
          ELSE /\ last_coverage' = initial_check.line_coverage
               /\ IF initial_check.line_coverage = Full
                  THEN Return(TRUE, rtl_code) /\ history' = <<>>
                  ELSE IF ~initial_check.is_syntax_pass \/ ~initial_check.is_sim_pass
                  THEN Return(FALSE, rtl_code) /\ history' = <<>>
                  ELSE /\ EnterLoop
                       /\ get_init_prompt_messages_ok(ed)
  /\ UNCHANGED <<ed, is_done, last_mismatch_cnt, last_line_coverage,
                 last_branch_coverage, i, succeed_history, fail_history,
                 action_input, action_output, llm_calls, calls>>

TBCoverageEditor_chat ==
  /\ UNCHANGED <<run_vars, batch_vars, aux_vars, matrix_vars, final_check>>
  /\ ed = TBCoverageEditor
  /\ pc = "new"
  /\ \E testbench \in StartFiles, o \in OracleOutcomes(ed) :
       LET initial_check == replace_sanity_check(o) IN
       /\ file' = testbench
       /\ committed' = testbench
       /\ init_checks' = IF o.status = "exception" THEN <<>> ELSE <<initial_check>>
       /\ evals' \in {<<made>> : made \in oracle_calls(o)}
       /\ IF o.status = "exception" \/ BaselineKey(ed) \notin SanityCheckKeys
          THEN /\ Raise
               /\ history' = <<>>
               /\ UNCHANGED <<last_line_coverage, last_branch_coverage, is_pass, result>>
          ELSE /\ last_line_coverage' = initial_check.line_coverage
               /\ last_branch_coverage' = initial_check.branch_coverage
               /\ IF GoalMet(initial_check.line_coverage)
                     /\ GoalMet(initial_check.branch_coverage)
                  THEN Return(TRUE, testbench) /\ history' = <<>>
                  ELSE IF ~initial_check.is_syntax_pass \/ ~initial_check.is_sim_pass
                  THEN Return(FALSE, testbench) /\ history' = <<>>
                  ELSE /\ EnterLoop
                       /\ get_init_prompt_messages_ok(ed)
  /\ UNCHANGED <<ed, is_done, last_mismatch_cnt, last_coverage, i, succeed_history,
                 fail_history, action_input, action_output, llm_calls, calls>>

\* one round of the for loop: generate, parse_output, run_action, histories
Round ==
  /\ UNCHANGED <<run_vars, batch_vars, aux_vars, matrix_vars, final_check, init_checks>>
  /\ pc = "loop"
  /\ llm_calls' = llm_calls + 1
  /\ \/ \* the LLM call fails or json.loads rejects the response
        /\ Raise
        /\ evals' = <<>>
        /\ UNCHANGED <<file, committed, is_done, last_mismatch_cnt, last_coverage,
                       last_line_coverage, last_branch_coverage, action_output,
                       i, succeed_history, fail_history, is_pass, result>>
     \/ /\ \E p \in Proposals, o \in OracleOutcomes(ed) :
             /\ EditAction(p, o)
             /\ evals' \in ActionEvals(p, o)
        /\ IF action_output'.kind = "exception"
           THEN /\ Raise
                /\ UNCHANGED <<i, succeed_history, fail_history, is_pass, result>>
           ELSE IF is_done'
           THEN /\ is_pass' = TRUE
                /\ pc' = "exit"
                /\ UNCHANGED <<i, succeed_history, fail_history, outcome, result>>
           ELSE /\ IF action_output'.is_action_executed
                   THEN /\ fail_history' = <<>>
                        /\ succeed_history' =
                             LastN(succeed_history \o NewContents(i),
                                   succeed_history_max_length(ed))
                   ELSE /\ fail_history' =
                             LastN(fail_history \o NewContents(i),
                                   fail_history_max_length(ed))
                        /\ UNCHANGED succeed_history
                /\ i' = i + 1
                /\ pc' = IF i + 1 < max_trials(ed) THEN "loop" ELSE "exit"
                /\ UNCHANGED <<is_pass, outcome, result>>
  /\ UNCHANGED <<ed, history, action_input, calls>>

\* after the loop: read the working copy and return
ChatReturn ==
  /\ UNCHANGED <<run_vars, batch_vars, aux_vars, matrix_vars, init_checks>>
  /\ pc = "exit"
  /\ IF ed = TBCoverageEditor
     THEN \E o \in OracleOutcomes(ed) :
            /\ evals' \in {<<made>> : made \in oracle_calls(o)}
            /\ IF o.status = "exception"
               THEN Raise /\ UNCHANGED <<is_pass, result, final_check>>
               ELSE /\ final_check' = replace_sanity_check(o)
                    /\ Return(GoalMet(final_check'.line_coverage), file)
     ELSE Return(is_pass, file) /\ UNCHANGED final_check /\ evals' = <<>>
  /\ UNCHANGED <<ed, file, history, is_done, last_mismatch_cnt, last_coverage,
                 last_line_coverage, last_branch_coverage, i, succeed_history,
                 fail_history, action_input, action_output, llm_calls, committed, calls>>

\* ------------------------------------------------------------------------
\* The public methods called on the object outside chat
\* ------------------------------------------------------------------------
\* a caller invokes the edit action directly
DirectCall ==
  /\ UNCHANGED <<run_vars, batch_vars, aux_vars, matrix_vars, final_check, init_checks>>
  /\ pc = "done"
  /\ calls < MaxCalls
  /\ evals' = <<>>
  /\ calls' = calls + 1
  /\ \E p \in CallProposals :
       action_input' = [old_content |-> p.old_content,
                        new_content |-> p.new_content, command |-> "edit"]
  /\ action_output' = NoOutput
  /\ pc' = "call"
  /\ UNCHANGED <<ed, outcome, file, history, is_done, last_mismatch_cnt, last_coverage,
                 last_line_coverage, last_branch_coverage, i, succeed_history,
                 fail_history, is_pass, result, llm_calls, committed>>

DirectRun ==
  /\ UNCHANGED <<run_vars, batch_vars, aux_vars, matrix_vars, final_check, init_checks>>
  /\ pc = "call"
  /\ \E o \in OracleOutcomes(ed) :
       /\ EditAction(action_input, o)
       /\ evals' \in ActionEvals(action_input, o)
  /\ action_input' = NoInput
  /\ pc' = "done"
  /\ UNCHANGED <<ed, outcome, history, i, succeed_history, fail_history,
                 is_pass, result, llm_calls, calls>>

\* reset()
Reset ==
  /\ UNCHANGED <<run_vars, batch_vars, aux_vars, matrix_vars, final_check, init_checks>>
  /\ pc = "done"
  /\ is_done' = FALSE
  /\ UNCHANGED evals
  /\ history' = <<>>
  /\ last_mismatch_cnt' = None
  /\ last_coverage' = None
  /\ last_line_coverage' = None
  /\ last_branch_coverage' = None
  /\ UNCHANGED <<ed, pc, outcome, file, i, succeed_history, fail_history,
                 action_input, action_output, is_pass, result, llm_calls, committed, calls>>

Init ==
  /\ ed \in Editors
  /\ pc = "new"
  /\ outcome = "none"
  /\ file \in StartFiles
  /\ history = <<>>
  /\ is_done = FALSE
  /\ last_mismatch_cnt = None
  /\ last_coverage = None
  /\ last_line_coverage = None
  /\ last_branch_coverage = None
  /\ i = 0
  /\ succeed_history = <<>>
  /\ fail_history = <<>>
  /\ action_input = NoInput
  /\ action_output = NoOutput
  /\ is_pass = FALSE
  /\ result = NoResult
  /\ llm_calls = 0
  /\ committed = file
  /\ final_check = NoCheck
  /\ init_checks = <<>>
  /\ evals = <<>>
  /\ calls = 0
  /\ MatrixIdle
  /\ DriversIdle

Next ==
  \/ RTLEditor_chat
  \/ RTLCoverageEditor_chat
  \/ TBCoverageEditor_chat
  \/ Round
  \/ ChatReturn

Spec == Init /\ [][Next]_vars

\* chat is sequential code: while a step is enabled the next one is taken,
\* every LLM call and oracle call returning or raising
FairSpec == Spec /\ WF_vars(Next)

\* ------------------------------------------------------------------------
\* run_action on a response that names a method other than the advertised
\* action: getattr(self, command) finds any attribute of the object
\* ------------------------------------------------------------------------
\* write_rtl / write_tb and reset, as the command of a response
OtherCommands == {"write", "reset"}

\* getattr(self, command)(**args) for write_rtl / write_tb(content) and reset()
run_action_other(command, content) ==
  IF command = "write"
  THEN /\ file' = content
       /\ UNCHANGED <<is_done, history, last_mismatch_cnt, last_coverage,
                      last_line_coverage, last_branch_coverage>>
  ELSE /\ is_done' = FALSE
       /\ history' = <<>>
       /\ last_mismatch_cnt' = IF ed = RTLEditor THEN None ELSE last_mismatch_cnt
       /\ last_coverage' = IF ed = RTLCoverageEditor THEN None ELSE last_coverage
       /\ last_line_coverage' = IF ed = TBCoverageEditor THEN None ELSE last_line_coverage
       /\ last_branch_coverage' =
            IF ed = TBCoverageEditor THEN None ELSE last_branch_coverage
       /\ UNCHANGED file

\* one round of the for loop whose response names write_rtl / write_tb or
\* reset: the method runs and returns None, and the round ends in a TypeError
\* on the None it got as action_output
RoundOtherCommand ==
  /\ UNCHANGED <<run_vars, batch_vars, aux_vars, matrix_vars, final_check, init_checks>>
  /\ pc = "loop"
  /\ llm_calls' = llm_calls + 1
  /\ \E command \in OtherCommands, content \in StartFiles :
       /\ action_input' = [old_content |-> <<>>, new_content |-> content,
                           command |-> command]
       /\ run_action_other(command, content)
  /\ action_output' = NoOutput
  /\ evals' = <<>>
  /\ Raise
  /\ UNCHANGED <<ed, committed, i, succeed_history, fail_history, is_pass, result, calls>>

NextCommand ==
  \/ RTLEditor_chat
  \/ RTLCoverageEditor_chat
  \/ TBCoverageEditor_chat
  \/ Round
  \/ RoundOtherCommand
  \/ ChatReturn

CommandSpec == Init /\ [][NextCommand]_vars

\* ------------------------------------------------------------------------
\* chat invoked on an object whose is_done was set by an earlier session (a
\* chat that reached its goal, or a direct edit that did), with no reset()
\* ------------------------------------------------------------------------
InitRechat ==
  /\ ed \in Editors
  /\ pc = "new"
  /\ outcome = "none"
  /\ file \in StartFiles
  /\ history \in {<<>>, InitMessages}
  /\ history = InitMessages <=> ed = TBCoverageEditor
  /\ is_done = TRUE
  /\ last_mismatch_cnt = IF ed = RTLEditor THEN 0 ELSE None
  /\ last_coverage \in IF ed = RTLCoverageEditor THEN {Full - (Tol \div 2), Full} ELSE {None}
  /\ last_line_coverage \in
       IF ed = TBCoverageEditor THEN {Full - (Tol \div 2), Full} ELSE {None}
  /\ last_branch_coverage = IF ed = TBCoverageEditor THEN Full ELSE None
  /\ i = 0
  /\ succeed_history = <<>>
  /\ fail_history = <<>>
  /\ action_input = NoInput
  /\ action_output = NoOutput
  /\ is_pass = FALSE
  /\ result = NoResult
  /\ llm_calls = 0
  /\ committed = file
  /\ final_check = NoCheck
  /\ init_checks = <<>>
  /\ evals = <<>>
  /\ calls = 0
  /\ MatrixIdle
  /\ DriversIdle

RechatSpec == InitRechat /\ [][Next]_vars

\* ------------------------------------------------------------------------
\* Direct calls of the edit action on an object whose chat has ended
\* ------------------------------------------------------------------------
InitCall ==
  /\ ed \in Editors
  /\ pc = "done"
  /\ outcome = IF ed = TBCoverageEditor THEN "returned" ELSE "raised"
  /\ file \in CallFiles
  /\ history = <<>>
  /\ last_mismatch_cnt \in IF ed = RTLEditor THEN MismatchValues ELSE {None}
  /\ last_coverage \in IF ed = RTLCoverageEditor THEN CovValues \cup {None} ELSE {None}
  /\ last_line_coverage \in IF ed = TBCoverageEditor THEN CovValues \cup {0} ELSE {None}
  /\ last_branch_coverage \in IF ed = TBCoverageEditor THEN CovValues \cup {0} ELSE {None}
  /\ (last_line_coverage = 0) = (last_branch_coverage = 0)
  /\ is_done \in BOOLEAN
  /\ is_done => \/ /\ ed = TBCoverageEditor
                   /\ GoalMet(last_line_coverage)
                   /\ GoalMet(last_branch_coverage)
                \/ /\ ed = RTLCoverageEditor
                   /\ last_coverage # None
                   /\ GoalMet(last_coverage)
  /\ (ed = RTLCoverageEditor /\ last_coverage # None /\ GoalMet(last_coverage)) => is_done
  /\ i = 0
  /\ succeed_history = <<>>
  /\ fail_history = <<>>
  /\ action_input = NoInput
  /\ action_output = NoOutput
  /\ is_pass = FALSE
  /\ result = NoResult
  /\ llm_calls = 0
  /\ committed = file
  /\ final_check = NoCheck
  /\ init_checks = <<>>
  /\ evals = <<>>
  /\ calls = 0
  /\ MatrixIdle
  /\ DriversIdle

NextCall ==
  \/ DirectCall
  \/ DirectRun
  \/ Reset

CallSpec == InitCall /\ [][NextCall]_vars

\* ------------------------------------------------------------------------
\* TopAgent.run_instance
\* ------------------------------------------------------------------------
\* the mismatch counts sim_reviewer.review() reports for a pairing
SimCounts == {0, 1, 3}

\* the k-th text the testbench generator / the RTL generator returns
TbText(k) == <<"tb", k>>
RtlText(k) == <<"rtl", k>>

\* variant: a tie replaces the best pairing
LessThanMin_or_equal(cnt, m) == m = Inf \/ cnt <= m

\* sim_mismatch_cnt < min_mismatch, min_mismatch starting at float("inf")
LessThanMin(cnt, m) == m = Inf \/ cnt < m

\* the state of the editor variables while no editor is modelled
EditorIdle ==
  /\ ed = RTLEditor
  /\ pc = "idle"
  /\ outcome = "none"
  /\ file = <<>>
  /\ history = <<>>
  /\ is_done = FALSE
  /\ last_mismatch_cnt = None
  /\ last_coverage = None
  /\ last_line_coverage = None
  /\ last_branch_coverage = None
  /\ i = 0
  /\ succeed_history = <<>>
  /\ fail_history = <<>>
  /\ action_input = NoInput
  /\ action_output = NoOutput
  /\ is_pass = FALSE
  /\ result = NoResult
  /\ llm_calls = 0
  /\ committed = <<>>
  /\ final_check = NoCheck
  /\ init_checks = <<>>
  /\ evals = <<>>
  /\ calls = 0

InitMatrix ==
  /\ EditorIdle
  /\ DriversIdle
  /\ ri_pc = "gen_tb"
  /\ testbench_num \in 0..MaxCandidates
  /\ rtl_num \in 0..MaxCandidates
  /\ g = 0
  /\ testbenches = <<>>
  /\ rtl_codes = <<>>
  /\ out_files = {}
  /\ mi = 0
  /\ mj = 0
  /\ sim_row = <<>>
  /\ sim_results = <<>>
  /\ best_rtl_idx = 0
  /\ best_tb_idx = 0
  /\ min_mismatch = Inf
  /\ ws_rtl = <<>>
  /\ ws_tb = <<>>
  /\ sim_calls = <<>>
  /\ gen_verdicts = <<>>
  /\ best_sim_pass = FALSE
  /\ ri_ret = <<>>

\* an exception leaves run_instance
RaiseInstance(unchanged) ==
  /\ ri_pc' = "raised"
  /\ UNCHANGED unchanged

\* one iteration of "for i in range(testbench_num)"
GenTestbench ==
  /\ UNCHANGED <<gen_verdicts, best_sim_pass>>
  /\ ri_pc = "gen_tb"
  /\ g < testbench_num
  /\ \/ /\ testbenches' = Append(testbenches, TbText(g))
        /\ out_files' = out_files \cup {[name |-> <<"tb", g>>, content |-> TbText(g)]}
        /\ g' = g + 1
        /\ UNCHANGED ri_pc
     \/ \* tb_gen.chat raises
        RaiseInstance(<<testbenches, out_files, g>>)
  /\ UNCHANGED <<testbench_num, rtl_num, rtl_codes, mi, mj, sim_row, sim_results,
                 best_rtl_idx, best_tb_idx, min_mismatch, ws_rtl, ws_tb, sim_calls,
                 ri_ret>>
  /\ UNCHANGED <<editor_vars, run_vars, batch_vars, aux_vars>>

\* write_output(interface, "if.sv"): interface is unbound when no testbench was made
WriteInterface ==
  /\ UNCHANGED <<gen_verdicts, best_sim_pass>>
  /\ ri_pc = "gen_tb"
  /\ g = testbench_num
  /\ IF testbench_num = 0
     THEN RaiseInstance(<<out_files, g>>)
     ELSE /\ out_files' = out_files \cup {[name |-> <<"if">>, content |-> <<"if">>]}
          /\ ri_pc' = "gen_rtl"
          /\ g' = 0
  /\ UNCHANGED <<testbench_num, rtl_num, testbenches, rtl_codes, mi, mj, sim_row,
                 sim_results, best_rtl_idx, best_tb_idx, min_mismatch, ws_rtl, ws_tb,
                 sim_calls, ri_ret>>
  /\ UNCHANGED <<editor_vars, run_vars, batch_vars, aux_vars>>

\* variant: every candidate is kept
Retain_all(codes, is_syntax_pass, rtl_code) == Append(codes, rtl_code)

\* "if is_syntax_pass: ... rtl_codes.append(rtl_code)"
Retain(codes, is_syntax_pass, rtl_code) ==
  IF is_syntax_pass THEN Append(codes, rtl_code) ELSE codes

\* one iteration of "for i in range(rtl_num)"
GenRtl ==
  /\ UNCHANGED best_sim_pass
  /\ ri_pc = "gen_rtl"
  /\ g < rtl_num
  /\ \/ \E is_syntax_pass \in BOOLEAN :
          /\ out_files' =
               IF is_syntax_pass
               THEN out_files \cup {[name |-> <<"rtl", g>>, content |-> RtlText(g)]}
               ELSE out_files
          /\ rtl_codes' = Retain(rtl_codes, is_syntax_pass, RtlText(g))
          /\ gen_verdicts' = Append(gen_verdicts, is_syntax_pass)
          /\ g' = g + 1
          /\ UNCHANGED ri_pc
     \/ \* rtl_gen.chat raises
        RaiseInstance(<<rtl_codes, out_files, g, gen_verdicts>>)
  /\ UNCHANGED <<testbench_num, rtl_num, testbenches, mi, mj, sim_row, sim_results,
                 best_rtl_idx, best_tb_idx, min_mismatch, ws_rtl, ws_tb, sim_calls,
                 ri_ret>>
  /\ UNCHANGED <<editor_vars, run_vars, batch_vars, aux_vars>>

\* the generation loop is over: the matrix variables are initialised
StartMatrix ==
  /\ UNCHANGED gen_verdicts
  /\ best_sim_pass' = FALSE
  /\ ri_pc = "gen_rtl"
  /\ g = rtl_num
  /\ ri_pc' = "sim"
  /\ sim_results' = <<>>
  /\ best_rtl_idx' = 0
  /\ best_tb_idx' = 0
  /\ min_mismatch' = Inf
  /\ mi' = 0
  /\ mj' = 0
  /\ sim_row' = <<>>
  /\ UNCHANGED <<testbench_num, rtl_num, g, testbenches, rtl_codes, out_files,
                 ws_rtl, ws_tb, sim_calls, ri_ret>>
  /\ UNCHANGED <<editor_vars, run_vars, batch_vars, aux_vars>>

\* the update of the best pairing after the cell (row, col) got cnt
UpdateBest(cnt, row, col) ==
  IF LessThanMin(cnt, min_mismatch)
  THEN /\ min_mismatch' = cnt
       /\ best_rtl_idx' = row
       /\ best_tb_idx' = col
  ELSE UNCHANGED <<min_mismatch, best_rtl_idx, best_tb_idx>>

\* variant: the testbench in the workspace is not refreshed
PairWritten_first_tb(row, col) == [rtl |-> rtl_codes[row + 1], tb |-> testbenches[1]]

\* the candidates written to the workspace for the cell (row, col)
PairWritten(row, col) == [rtl |-> rtl_codes[row + 1], tb |-> testbenches[col + 1]]

\* one pass through the body of the inner loop, and the row append after the last one
SimCell ==
  /\ UNCHANGED gen_verdicts
  /\ ri_pc = "sim"
  /\ mi < Len(rtl_codes)
  /\ mj < Len(testbenches)
  /\ ws_rtl' = PairWritten(mi, mj).rtl
  /\ ws_tb' = PairWritten(mi, mj).tb
  /\ \/ \E sim_mismatch_cnt \in SimCounts, is_sim_pass \in BOOLEAN :
          LET row == Append(sim_row, sim_mismatch_cnt) IN
          /\ best_sim_pass' = IF LessThanMin(sim_mismatch_cnt, min_mismatch)
                              THEN is_sim_pass ELSE best_sim_pass
          /\ sim_calls' = Append(sim_calls,
                 [i |-> mi, j |-> mj, rtl |-> ws_rtl', tb |-> ws_tb',
                  cnt |-> sim_mismatch_cnt])
          /\ UpdateBest(sim_mismatch_cnt, mi, mj)
          /\ IF mj + 1 < Len(testbenches)
             THEN /\ sim_row' = row
                  /\ mj' = mj + 1
                  /\ UNCHANGED <<sim_results, mi>>
             ELSE /\ sim_results' = Append(sim_results, row)
                  /\ sim_row' = <<>>
                  /\ mj' = 0
                  /\ mi' = mi + 1
          /\ UNCHANGED ri_pc
     \/ \* sim_reviewer.review() raises
        RaiseInstance(<<best_sim_pass, sim_calls, min_mismatch, best_rtl_idx, best_tb_idx, sim_row,
                        sim_results, mi, mj>>)
  /\ UNCHANGED <<testbench_num, rtl_num, g, testbenches, rtl_codes, out_files, ri_ret>>
  /\ UNCHANGED <<editor_vars, run_vars, batch_vars, aux_vars>>

\* after the loops: sim_matrix.json, rtl_best.sv and the return value
Select ==
  /\ UNCHANGED <<gen_verdicts, best_sim_pass>>
  /\ ri_pc = "sim"
  /\ mi = Len(rtl_codes)
  /\ IF best_rtl_idx + 1 \in DOMAIN rtl_codes
     THEN /\ out_files' =
               out_files \cup {[name |-> <<"rtl_best">>, content |-> rtl_codes[best_rtl_idx + 1]]}
          /\ ri_ret' = <<min_mismatch = 0, rtl_codes[best_rtl_idx + 1]>>
          /\ ri_pc' = "returned"
     ELSE \* rtl_codes[best_rtl_idx] raises IndexError
          RaiseInstance(<<out_files, ri_ret>>)
  /\ UNCHANGED <<testbench_num, rtl_num, g, testbenches, rtl_codes, mi, mj, sim_row,
                 sim_results, best_rtl_idx, best_tb_idx, min_mismatch, ws_rtl, ws_tb,
                 sim_calls>>
  /\ UNCHANGED <<editor_vars, run_vars, batch_vars, aux_vars>>

NextMatrix ==
  \/ GenTestbench
  \/ WriteInterface
  \/ GenRtl
  \/ StartMatrix
  \/ SimCell
  \/ Select

MatrixSpec == InitMatrix /\ [][NextMatrix]_vars

\* ------------------------------------------------------------------------
\* TopAgent._run: the try block around the pipeline, and the completion marker
\* ------------------------------------------------------------------------
\* the exceptions a pipeline raises: all of them derive from Exception
PipelineExceptions == {"KeyError", "IndexError", "UnboundLocalError", "JSONDecodeError"}

\* variant: the handler catches decode errors only
except_JSONDecodeError(kind) == kind = "JSONDecodeError"

\* "except Exception:"
except_Exception(kind) == kind \in PipelineExceptions

\* variant: a marker left by an earlier run is kept
keep_stale_tag(exists) == exists

\* "if os.path.exists(tag): os.remove(tag)": whether the marker exists afterwards
remove_stale_tag(exists) == IF exists THEN FALSE ELSE exists

InitRun ==
  /\ EditorIdle
  /\ BatchIdle
  /\ ToolsIdle
  /\ MatrixIdle
  /\ run_pc = "ready"
  /\ tag \in BOOLEAN
  /\ is_ablation \in BOOLEAN
  /\ run_ret = <<>>
  /\ run_count = 0

\* _run is called: marker removal, token_counter.reset(), construction of the
\* reviewer and the generators, then the call of the pipeline
TopAgent_run_enter ==
  /\ run_pc \in {"ready", "done"}
  /\ run_count < MaxRuns
  /\ run_count' = run_count + 1
  /\ tag' = remove_stale_tag(tag)
  /\ run_pc' = "pipeline"
  /\ \E n_tb \in {0, 1}, n_rtl \in {0, 1} :
       /\ testbench_num' = n_tb
       /\ rtl_num' = n_rtl
  /\ \/ ri_pc' = IF is_ablation THEN "ablation" ELSE "gen_tb"
     \/ \* a constructor raises
        ri_pc' = "raised"
  /\ g' = 0
  /\ testbenches' = <<>>
  /\ rtl_codes' = <<>>
  /\ mi' = 0
  /\ mj' = 0
  /\ sim_row' = <<>>
  /\ sim_results' = <<>>
  /\ best_rtl_idx' = 0
  /\ best_tb_idx' = 0
  /\ min_mismatch' = Inf
  /\ sim_calls' = <<>>
  /\ gen_verdicts' = <<>>
  /\ best_sim_pass' = FALSE
  /\ ri_ret' = <<>>
  /\ UNCHANGED <<out_files, ws_rtl, ws_tb, is_ablation, run_ret>>
  /\ UNCHANGED <<editor_vars, batch_vars, aux_vars>>

\* run_instance_ablation: one generation, rtl.sv written, its verdict returned
run_instance_ablation ==
  /\ run_pc = "pipeline"
  /\ ri_pc = "ablation"
  /\ \/ \E is_syntax_pass \in BOOLEAN :
          /\ ws_rtl' = RtlText(0)
          /\ ri_ret' = <<is_syntax_pass, RtlText(0)>>
          /\ ri_pc' = "returned"
     \/ \* rtl_gen.ablation_chat raises
        RaiseInstance(<<ws_rtl, ri_ret>>)
  /\ UNCHANGED <<testbench_num, rtl_num, g, testbenches, rtl_codes, out_files, mi, mj,
                 sim_row, sim_results, best_rtl_idx, best_tb_idx, min_mismatch, ws_tb,
                 sim_calls, gen_verdicts, best_sim_pass>>
  /\ UNCHANGED <<editor_vars, run_vars, batch_vars, aux_vars>>

\* the pipeline returned: log_token_stats(), the marker is written, ret returned
TopAgent_run_finish ==
  /\ run_pc = "pipeline"
  /\ ri_pc = "returned"
  /\ tag' = TRUE
  /\ run_ret' = ri_ret
  /\ run_pc' = "done"
  /\ UNCHANGED <<is_ablation, run_count>>
  /\ UNCHANGED <<editor_vars, matrix_vars, batch_vars, aux_vars>>

\* the pipeline raised: the except clause, or the exception leaves _run
TopAgent_run_except ==
  /\ run_pc = "pipeline"
  /\ ri_pc = "raised"
  /\ \E kind \in PipelineExceptions :
       IF except_Exception(kind)
       THEN /\ run_ret' = <<FALSE, "Exception">>
            /\ run_pc' = "done"
       ELSE /\ run_pc' = "propagated"
            /\ UNCHANGED run_ret
  /\ UNCHANGED <<tag, is_ablation, run_count>>
  /\ UNCHANGED <<editor_vars, matrix_vars, batch_vars, aux_vars>>

NextRun ==
  \/ TopAgent_run_enter
  \/ run_instance_ablation
  \/ GenTestbench
  \/ WriteInterface
  \/ GenRtl
  \/ StartMatrix
  \/ SimCell
  \/ Select
  \/ TopAgent_run_finish
  \/ TopAgent_run_except

RunSpec == InitRun /\ [][NextRun]_vars

\* ------------------------------------------------------------------------
\* The batch drivers of src/exp and the generators they call
\* ------------------------------------------------------------------------
Drivers == {"check_circuit_type", "check_ambiguous", "prompting_top_agent"}

\* args.max_trials of prompting_top_agent: the PyChecker runs of one task
py_max_trials == 3

\* a response, as the words of its text: a JSON object holding the keys, and
\* the same object wrapped in a Markdown fence
JsonText(keys) == <<"{">> \o keys \o <<"}">>
Responses(keys) == {JsonText(keys), <<"fence">> \o JsonText(keys) \o <<"fence">>}

\* json.loads(text, strict=False): the object, or JSONDecodeError
json_loads(text) ==
  IF Len(text) >= 2 /\ text[1] = "{" /\ text[Len(text)] = "}"
  THEN [ok |-> TRUE, keys |-> {text[k] : k \in 2..(Len(text) - 1)}]
  ELSE [ok |-> FALSE, keys |-> {}]

\* token_counter.count_chat: the call is added to the counts held
count_chat(cnt) == cnt + 1

\* circuit_type_classifier.run after its LLM call: the object, None, or KeyError
circuit_type_classifier_run(text) ==
  LET obj == json_loads(text) IN
  IF ~obj.ok THEN "None"
  ELSE IF "classification" \notin obj.keys THEN "KeyError"
  ELSE "obj"

\* what a generator hands to its caller
Returned(component, decoded, success, code) ==
  [component |-> component, decoded |-> decoded, kind |-> "returned",
   success |-> success, code |-> code]

\* PyChecker.parse_output and PyChecker.run
PyChecker_run(text) ==
  LET obj == json_loads(text)
      python_code == IF obj.ok THEN <<"python_code">> ELSE <<>>
  IN  Returned("PyChecker", obj.ok, "True", <<"PythonHeader">> \o python_code \o <<"CHECKER_TAIL">>)

\* TB_Generator.parse_output and TB_Generator.run
TB_Generator_run(text) ==
  LET obj == json_loads(text)
      stimulus_gen_code == IF obj.ok THEN <<"stimulus_gen_code">> ELSE <<>>
  IN  Returned("TB_Generator", obj.ok, "none", <<"import json">> \o stimulus_gen_code \o <<"tail">>)

\* TB_Generator_Scenario.parse_output and TB_Generator_Scenario.run
TB_Generator_Scenario_run(text) ==
  LET obj == json_loads(text)
      scenarios_str == IF obj.ok THEN <<"scenario">> ELSE <<>>
  IN  Returned("TB_Generator_Scenario", obj.ok, "none", scenarios_str)

StepOf(name, trial) == [name |-> name, trial |-> trial]

\* the task ids of the prompt files, as the character codes of their digits
TaskIds == {<<49>>, <<49, 48>>, <<50>>, <<50, 49>>}

\* f"Task: {task_id}, Circuit Type: ..." past the common prefix: the id,
\* the comma, the classification
SummaryLine(task_id) == task_id \o <<44, 67>>

\* str.__lt__: comparison of the first differing character, a proper prefix first
RECURSIVE StrLess(_, _)
StrLess(a, b) ==
  IF a = <<>> THEN b # <<>>
  ELSE IF b = <<>> THEN FALSE
  ELSE IF Head(a) # Head(b) THEN Head(a) < Head(b)
  ELSE StrLess(Tail(a), Tail(b))

\* variant: the list is left in the order of the visits
list_unsorted(l) == l

RECURSIVE list_sort(_)
\* list.sort(): the least element first, then the rest sorted
list_sort(l) ==
  IF l = <<>> THEN <<>>
  ELSE LET k == CHOOSE n \in DOMAIN l :
                  \A m \in DOMAIN l : ~StrLess(l[m], l[n]) /\ (l[m] = l[n] => n <= m)
           rest == [n \in 1..(Len(l) - 1) |-> IF n < k THEN l[n] ELSE l[n + 1]]
       IN  <<l[k]>> \o list_sort(rest)

\* the orders in which n of the task ids can be visited
VisitOrders(n) ==
  {v \in [1..n -> TaskIds] : \A a, b \in 1..n : a # b => v[a] # v[b]}

InitBatch ==
  /\ EditorIdle
  /\ MatrixIdle
  /\ RunIdle
  /\ ToolsIdle
  /\ driver \in Drivers
  /\ b_pc = "loop"
  /\ task = 0
  /\ step = StepOf("classify", 0)
  /\ done_tasks = {}
  /\ attempted = {}
  /\ gen_rets = <<>>
  /\ token_cnt = 0
  /\ session_cnt = 0
  /\ logged_cnt = 0
  /\ visit \in IF driver = "check_circuit_type" THEN VisitOrders(MaxTasks) ELSE {<<>>}
  /\ summary = <<>>
  /\ summary_file \in IF driver = "check_circuit_type"
                       THEN {<<>>, <<SummaryLine(<<51>>)>>} ELSE {<<>>}

\* one pass through the loop body of check_circuit_type.main; the classifier
\* object, and with it its token counter, is made once before the loop
check_circuit_type_task ==
  /\ driver = "check_circuit_type"
  /\ b_pc = "loop"
  /\ task < MaxTasks
  /\ attempted' = attempted \cup {task}
  /\ token_cnt' = count_chat(token_cnt)
  /\ session_cnt' = 1
  /\ \E text \in Responses(<<"classification", "reasoning">>)
                 \cup {JsonText(<<"reasoning">>)} :
       LET output_json_obj == circuit_type_classifier_run(text) IN
       /\ logged_cnt' = token_cnt'
       /\ IF output_json_obj = "obj"
          THEN /\ done_tasks' = done_tasks \cup {task}
               /\ summary' = Append(summary, SummaryLine(visit[task + 1]))
               /\ task' = task + 1
               /\ UNCHANGED b_pc
          ELSE \* KeyError in run, or TypeError on None["classification"]
               /\ b_pc' = IF output_json_obj = "None" THEN "TypeError" ELSE "KeyError"
               /\ UNCHANGED <<done_tasks, task, summary>>
  /\ UNCHANGED <<driver, step, gen_rets, visit, summary_file>>
  /\ UNCHANGED <<editor_vars, matrix_vars, run_vars, aux_vars>>

\* one pass through the loop body of check_ambiguous.main, the prompt files
\* lying in one directory: "break" leaves the loop over its files
check_ambiguous_task ==
  /\ driver = "check_ambiguous"
  /\ b_pc = "loop"
  /\ task < MaxTasks
  /\ attempted' = attempted \cup {task}
  /\ \E text \in Responses(<<"classification", "reasoning">>)
                 \cup {JsonText(<<"reasoning">>)} :
       LET obj == json_loads(text) IN
       IF ~obj.ok
       THEN /\ b_pc' = "finished"
            /\ UNCHANGED <<done_tasks, task>>
       ELSE IF "classification" \notin obj.keys
       THEN /\ b_pc' = "KeyError"
            /\ UNCHANGED <<done_tasks, task>>
       ELSE /\ done_tasks' = done_tasks \cup {task}
            /\ task' = task + 1
            /\ UNCHANGED b_pc
  /\ UNCHANGED <<driver, step, gen_rets, token_cnt, session_cnt, logged_cnt,
                 visit, summary, summary_file>>
  /\ UNCHANGED <<editor_vars, matrix_vars, run_vars, aux_vars>>

\* prompting_top_agent.main: the classifier made for the task is run
prompting_classify ==
  /\ driver = "prompting_top_agent"
  /\ b_pc = "loop"
  /\ task < MaxTasks
  /\ step.name = "classify"
  /\ attempted' = attempted \cup {task}
  /\ token_cnt' = count_chat(0)
  /\ session_cnt' = 1
  /\ \E text \in Responses(<<"classification", "reasoning">>) :
       LET output_json_obj == circuit_type_classifier_run(text) IN
       /\ logged_cnt' = token_cnt'
       /\ IF output_json_obj = "obj"
          THEN /\ step' = StepOf("scenario", 0)
               /\ UNCHANGED b_pc
          ELSE /\ b_pc' = IF output_json_obj = "None" THEN "TypeError" ELSE "KeyError"
               /\ UNCHANGED step
  /\ gen_rets' = <<>>
  /\ UNCHANGED <<driver, task, done_tasks, visit, summary, summary_file>>
  /\ UNCHANGED <<editor_vars, matrix_vars, run_vars, aux_vars>>

\* tb_generator_scenario.run, tb_genarator.run, and each py_checker.run
prompting_generate ==
  /\ driver = "prompting_top_agent"
  /\ b_pc = "loop"
  /\ step.name \in {"scenario", "tb", "pychecker"}
  /\ IF step.name = "scenario"
     THEN /\ \E text \in Responses(<<"reasoning", "testbench_scenarios">>) :
               gen_rets' = Append(gen_rets, TB_Generator_Scenario_run(text))
          /\ step' = StepOf("tb", 0)
          /\ UNCHANGED <<task, done_tasks>>
     ELSE IF step.name = "tb"
     THEN /\ \E text \in Responses(<<"reasoning", "stimulus_gen_code">>) :
               gen_rets' = Append(gen_rets, TB_Generator_run(text))
          /\ step' = StepOf("pychecker", 0)
          /\ UNCHANGED <<task, done_tasks>>
     ELSE /\ \E text \in Responses(<<"reasoning", "python_code">>) :
               gen_rets' = Append(gen_rets, PyChecker_run(text))
          /\ IF step.trial + 1 < py_max_trials
             THEN /\ step' = StepOf("pychecker", step.trial + 1)
                  /\ UNCHANGED <<task, done_tasks>>
             ELSE \* our_output.txt is written and the next task is taken
                  /\ step' = StepOf("classify", 0)
                  /\ done_tasks' = done_tasks \cup {task}
                  /\ task' = task + 1
  /\ UNCHANGED <<driver, b_pc, attempted, token_cnt, session_cnt, logged_cnt,
                 visit, summary, summary_file>>
  /\ UNCHANGED <<editor_vars, matrix_vars, run_vars, aux_vars>>

\* the loop over the tasks is exhausted
batch_end ==
  /\ b_pc = "loop"
  /\ task = MaxTasks
  /\ b_pc' = "finished"
  /\ summary' = IF driver = "check_circuit_type" THEN list_sort(summary) ELSE summary
  /\ summary_file' = summary_file \o summary'
  /\ UNCHANGED <<driver, task, step, done_tasks, attempted, gen_rets, token_cnt,
                 session_cnt, logged_cnt, visit>>
  /\ UNCHANGED <<editor_vars, matrix_vars, run_vars, aux_vars>>

NextBatch ==
  \/ check_circuit_type_task
  \/ check_ambiguous_task
  \/ prompting_classify
  \/ prompting_generate
  \/ batch_end

BatchSpec == InitBatch /\ [][NextBatch]_vars

\* ------------------------------------------------------------------------
\* The ambiguity classification and fix loop (spec 4.4) around
\* ambiguous_classifier.run and ambiguous_fixer.run
\* ------------------------------------------------------------------------
\* the fixed bound on the fix iterations of one spec
max_fix_iter == 3

\* the spec texts the loop can hold, as the words of the text
SpecTexts == {<<"spec">>, <<"spec", "r1">>, <<"spec", "r2">>}

\* the values of the "classification" key
Classifications == {"ambiguous", "unambiguous"}

\* ambiguous_classifier.run after its LLM call: the classification of the
\* object it returns, None, or KeyError
ambiguous_classifier_run(text, verdict) ==
  LET obj == json_loads(text) IN
  IF ~obj.ok THEN "None"
  ELSE IF "classification" \notin obj.keys THEN "KeyError"
  ELSE verdict

\* ambiguous_fixer.run: the content of the response is the new spec
ambiguous_fixer_run(content) == content

\* another fix iteration is made
fix_continues(cls, iter) == cls = "ambiguous" /\ iter < max_fix_iter

\* variant: the spec the loop was started with is written out
persist_original(original, latest) == original

\* the spec text the loop writes out when it ends
spec_to_persist(original, latest) == latest

InitFix ==
  /\ EditorIdle
  /\ MatrixIdle
  /\ RunIdle
  /\ BatchIdle
  /\ ConsistencyIdle
  /\ HarnessIdle
  /\ fx_pc = "classify"
  /\ original_spec \in SpecTexts
  /\ spec_text = original_spec
  /\ fix_iter = 0
  /\ classification = "none"
  /\ persisted = <<>>

\* classify the spec the loop holds, then go on to a fix or end the loop
fix_loop_classify ==
  /\ fx_pc = "classify"
  /\ \E text \in Responses(<<"classification", "reasoning">>), verdict \in Classifications :
       LET cls == ambiguous_classifier_run(text, verdict) IN
       /\ classification' = cls
       /\ IF fix_continues(cls, fix_iter)
          THEN /\ fx_pc' = "fix"
               /\ UNCHANGED persisted
          ELSE /\ fx_pc' = "done"
               /\ persisted' = spec_to_persist(original_spec, spec_text)
  /\ UNCHANGED <<original_spec, spec_text, fix_iter>>
  /\ UNCHANGED <<editor_vars, matrix_vars, run_vars, batch_vars, cc_vars, harness_vars>>

\* one fix iteration: the output of the fixer becomes the spec the loop holds
fix_loop_fix ==
  /\ fx_pc = "fix"
  /\ \E content \in SpecTexts :
       spec_text' = ambiguous_fixer_run(content)
  /\ fix_iter' = fix_iter + 1
  /\ fx_pc' = "classify"
  /\ UNCHANGED <<original_spec, classification, persisted>>
  /\ UNCHANGED <<editor_vars, matrix_vars, run_vars, batch_vars, cc_vars, harness_vars>>

NextFix ==
  \/ fix_loop_classify
  \/ fix_loop_fix

FixSpec == InitFix /\ [][NextFix]_vars /\ WF_vars(NextFix)

\* ------------------------------------------------------------------------
\* ConsistencyChecker.chat and parse_response (src/exp/check_consistency.py).
\* A response is the sequence of its stripped, non-empty lines.
\* ------------------------------------------------------------------------
\* the number of scenario blocks of a response
MaxScenarios == 2

\* header lines: the plain form parse_response looks for, and the form of
\* EXAMPLE_OUTPUT, a JSON key followed by an opening brace
PlainHeaders == {"Scenario1:", "Scenario2:"}
JsonHeaders == {"\"Scenario1\": {", "\"Scenario2\": {"}

\* the "if matches" lines
MatchLines == {"\"if matches\": \"yes\",", "\"if matches\": \"No\","}

ReasoningLine == "\"reasoning\": \"why\","
UnmatchedLine == "\"unmatched action\": \"\""

\* the blocks a response is made of: a whole scenario, a header alone, a
\* scenario without its reasoning, and a line of prose
Blocks ==
  {<<h, ReasoningLine, m, UnmatchedLine>> : h \in PlainHeaders \cup JsonHeaders, m \in MatchLines}
    \cup {<<h>> : h \in PlainHeaders \cup JsonHeaders}
    \cup {<<h, m>> : h \in PlainHeaders, m \in MatchLines}
    \cup {<<"All scenarios were reviewed.">>}

RECURSIVE Contents(_)
Contents(n) ==
  IF n = 0 THEN {<<>>}
  ELSE Contents(n - 1) \cup {c \o b : c \in Contents(n - 1), b \in Blocks}

\* line.startswith("Scenario") and line.endswith(":")
is_scenario_header(line) == line \in PlainHeaders

\* line.split(":", 1)[1].strip().strip('"').strip(",").lower() of an "if matches" line
if_matches_value(line) ==
  IF line = "\"if matches\": \"yes\"," THEN "yes" ELSE "no"

\* the fields pydantic requires of a ScenarioResult
ScenarioResultFields == {"reasoning", "if_matches", "unmatched_action"}

\* scenarios[current_scenario] = ScenarioResult(**current_data), done when both
\* are truthy; ValidationError when a field is missing
flush(st) ==
  IF st.current_scenario = "None" \/ DOMAIN st.current_data = {}
  THEN st
  ELSE IF DOMAIN st.current_data # ScenarioResultFields
  THEN [st EXCEPT !.raised = TRUE]
  ELSE [st EXCEPT !.scenarios = (st.current_scenario :> st.current_data) @@ st.scenarios]

\* the body of "for line in content.split(...)" for one line
parse_line(st, line) ==
  IF st.raised THEN st
  ELSE IF is_scenario_header(line)
  THEN [flush(st) EXCEPT !.current_scenario = line, !.current_data = <<>>]
  ELSE IF line = ReasoningLine
  THEN [st EXCEPT !.current_data = ("reasoning" :> "why") @@ st.current_data]
  ELSE IF line \in MatchLines
  THEN [st EXCEPT !.current_data = ("if_matches" :> if_matches_value(line)) @@ st.current_data]
  ELSE IF line = UnmatchedLine
  THEN [st EXCEPT !.current_data = ("unmatched_action" :> "") @@ st.current_data]
  ELSE st

RECURSIVE parse_lines(_, _)
parse_lines(st, lines) ==
  IF lines = <<>> THEN st ELSE parse_lines(parse_line(st, Head(lines)), Tail(lines))

\* parse_response: the dictionary of the scenarios, or ValidationError
parse_response(content) ==
  flush(parse_lines([scenarios |-> <<>>, current_scenario |-> "None",
                     current_data |-> <<>>, raised |-> FALSE], content))

\* all(result.if_matches == "yes" for result in scenario_results.values())
all_match(scenario_results) ==
  \A name \in DOMAIN scenario_results : scenario_results[name]["if_matches"] = "yes"

InitConsistency ==
  /\ EditorIdle
  /\ MatrixIdle
  /\ RunIdle
  /\ BatchIdle
  /\ FixIdle
  /\ HarnessIdle
  /\ cc_pc = "chat"
  /\ cc_content \in Contents(MaxScenarios)
  /\ cc_ret = <<>>

\* chat: the response is parsed and the verdict is returned
ConsistencyChecker_chat ==
  /\ cc_pc = "chat"
  /\ LET parsed == parse_response(cc_content) IN
     IF parsed.raised
     THEN /\ cc_pc' = "ValidationError"
          /\ UNCHANGED cc_ret
     ELSE /\ cc_pc' = "returned"
          /\ cc_ret' =
               IF all_match(parsed.scenarios)
               THEN <<TRUE, "All scenarios match the specification.">>
               ELSE <<FALSE, {name \in DOMAIN parsed.scenarios :
                                parsed.scenarios[name]["if_matches"] = "no"}>>
  /\ UNCHANGED cc_content
  /\ UNCHANGED <<editor_vars, matrix_vars, run_vars, batch_vars, fix_vars, harness_vars>>

\* check_and_fix_implementation: the verdict of chat is what the caller gets
check_and_fix_implementation ==
  /\ cc_pc = "returned"
  /\ cc_pc' = "done"
  /\ UNCHANGED <<cc_content, cc_ret>>
  /\ UNCHANGED <<editor_vars, matrix_vars, run_vars, batch_vars, fix_vars, harness_vars>>

NextConsistency ==
  \/ ConsistencyChecker_chat
  \/ check_and_fix_implementation

ConsistencySpec == InitConsistency /\ [][NextConsistency]_vars

\* ------------------------------------------------------------------------
\* The harness CHECKER_TAIL appends to a generated behavioural model
\* (src/exp/pychecker.py), run on the stimulus.json the tail of gen_tb.py wrote
\* ------------------------------------------------------------------------
\* the number of records of a stimulus list
MaxRecords == 2

ScenarioNames == {"s1", "s2"}

\* the values of "input variable": lists of input entries
InputLists ==
  {<<[x |-> "1", y |-> "0"]>>,
   <<[x |-> "0", y |-> "1"], [x |-> "X", y |-> "1"]>>}

\* a record of the documented form, and one that also carries a check_en key
StimulusRecord(name, inputs) == ("scenario" :> name) @@ ("input variable" :> inputs)
StimulusRecordCheckEn(name, inputs) == ("check_en" :> TRUE) @@ StimulusRecord(name, inputs)

StimulusRecords ==
  {StimulusRecord(name, inputs) : name \in ScenarioNames, inputs \in InputLists}
    \cup {StimulusRecordCheckEn(name, inputs) : name \in ScenarioNames, inputs \in InputLists}

RECURSIVE StimulusLists(_)
StimulusLists(n) ==
  IF n = 0 THEN {<<>>}
  ELSE StimulusLists(n - 1)
         \cup {Append(l, r) : l \in {m \in StimulusLists(n - 1) : Len(m) = n - 1},
                              r \in StimulusRecords}

\* what json.load reads from stimulus.json: a list of records, or one record
StimulusData ==
  {[type |-> "list", value |-> l] : l \in StimulusLists(MaxRecords)}
    \cup {[type |-> "dict", value |-> r] : r \in StimulusRecords}

\* z = (x ^ y) & x, "X" when an input is undefined
golden_z(entry) ==
  IF entry["x"] = "X" \/ entry["y"] = "X" THEN "X"
  ELSE IF entry["x"] = "1" /\ entry["y"] = "0" THEN "1" ELSE "0"

\* GoldenDUT.load: an output record, or KeyError on a stimulus without the keys
load_ok(stimulus) == {"scenario", "input variable"} \subseteq DOMAIN stimulus

GoldenDUT_load(stimulus) ==
  ("scenario" :> stimulus["scenario"])
    @@ ("output variable" :>
          [k \in DOMAIN stimulus["input variable"] |->
             [z |-> golden_z(stimulus["input variable"][k])]])

\* 'check_en' in stimulus
check_en_in(stimulus) == "check_en" \in DOMAIN stimulus

\* check_output: the outputs of the loads that were appended
RECURSIVE check_output(_)
check_output(stimulus_list) ==
  IF stimulus_list = <<>> THEN <<>>
  ELSE IF check_en_in(Head(stimulus_list))
  THEN <<GoldenDUT_load(Head(stimulus_list))>> \o check_output(Tail(stimulus_list))
  ELSE check_output(Tail(stimulus_list))

\* "if isinstance(stimulus_data, dict): stimulus_list = stimulus_data.get(...)"
stimulus_list_of(data) ==
  IF data.type = "dict" THEN data.value["input variable"] ELSE data.value

InitHarness ==
  /\ EditorIdle
  /\ MatrixIdle
  /\ RunIdle
  /\ BatchIdle
  /\ FixIdle
  /\ ConsistencyIdle
  /\ h_pc = "main"
  /\ stimulus_data \in StimulusData
  /\ tb_outputs = <<>>

\* the __main__ block: the outputs are printed, or a load raises KeyError
harness_main ==
  /\ h_pc = "main"
  /\ LET stimulus_list == stimulus_list_of(stimulus_data) IN
     IF \A k \in DOMAIN stimulus_list : load_ok(stimulus_list[k])
     THEN /\ tb_outputs' = check_output(stimulus_list)
          /\ h_pc' = "printed"
     ELSE /\ h_pc' = "KeyError"
          /\ UNCHANGED tb_outputs
  /\ UNCHANGED stimulus_data
  /\ UNCHANGED <<editor_vars, matrix_vars, run_vars, batch_vars, fix_vars, cc_vars>>

NextHarness == harness_main

HarnessSpec == InitHarness /\ [][NextHarness]_vars

\* ------------------------------------------------------------------------
\* Properties of the edit action and of the accept / reject judgement
\* ------------------------------------------------------------------------
\* the number of positions of text at which sub occurs
Occurrences(text, sub) ==
  Cardinality({k \in 1..(Len(text) - Len(sub) + 1) : MatchAt(text, sub, k)})

\* C1: in every editor a replacement is applied only when old_content occurs
\* exactly once in the current artifact; with zero or several occurrences the
\* action is not executed and the artifact is left unchanged.
C1_UniqueMatch ==
  [][(pc = "call" /\ pc' = "done") =>
       LET occurrences == Occurrences(file, action_input.old_content)
           applied == action_output'.kind \in {"judged", "exception"}
       IN  /\ applied => occurrences = 1
           /\ occurrences # 1 =>
                /\ ~action_output'.is_action_executed
                /\ file' = file]_vars

\* C2: after a round of an editor loop that ends in a rejection the artifact on
\* disk is identical to the artifact as it was at the start of that round.
C2_RollbackFidelity ==
  [][(pc = "loop" /\ i' = i + 1 /\ ~action_output'.is_action_executed) =>
       file' = file]_vars

C4_Monotone ==
  [][(pc = "call" /\ pc' = "done") =>
       /\ last_mismatch_cnt # None =>
            (last_mismatch_cnt' # None /\ last_mismatch_cnt' <= last_mismatch_cnt)
       /\ last_coverage # None =>
            (last_coverage' # None /\ last_coverage' >= last_coverage)
       /\ last_line_coverage # None =>
            (last_line_coverage' # None /\ last_line_coverage' >= last_line_coverage)
       /\ last_branch_coverage # None =>
            (last_branch_coverage' # None /\ last_branch_coverage' >= last_branch_coverage)
       /\ ~action_output'.is_action_executed =>
            UNCHANGED <<last_mismatch_cnt, last_coverage, last_line_coverage,
                        last_branch_coverage>>]_vars

\* an accepted edit of RTLEditor that left a positive tracked mismatch count
C4_Witness ==
  /\ ed = RTLEditor
  /\ pc = "done"
  /\ calls > 0
  /\ action_output.kind = "judged"
  /\ action_output.is_action_executed
  /\ last_mismatch_cnt = 1
  /\ ~is_done

C6_FirstMinimum ==
  (ri_pc \in {"sim", "returned"} /\ mi = Len(rtl_codes) /\ rtl_codes # <<>>) =>
    LET cells == (1..Len(sim_results)) \X (1..Len(testbenches))
        best == <<best_rtl_idx + 1, best_tb_idx + 1>>
        value(q) == sim_results[q[1]][q[2]]
    IN  /\ best \in cells
        /\ min_mismatch = value(best)
        /\ \A q \in cells :
             /\ value(q) >= value(best)
             /\ value(q) = value(best) =>
                  (best[1] < q[1] \/ (best[1] = q[1] /\ best[2] <= q[2]))

\* a returned run on the matrix [[0, 3], [1, 0]]: the minimum occurs twice and
\* the earlier cell (0, 0) is the best one
C6_Witness ==
  /\ ri_pc = "returned"
  /\ sim_results = <<<<0, 3>>, <<1, 0>>>>
  /\ best_rtl_idx = 0
  /\ best_tb_idx = 0
  /\ min_mismatch = 0
  /\ ri_ret[1] = TRUE

\* C7: for every retained RTL candidate i and every testbench j the workspace
\* is overwritten with exactly that pair, the simulator is run once on it, in
\* row-major order, and its count is recorded at sim_results[i][j]; the
\* simulator has always run on the pair written last.
C7_MatrixComplete ==
  ri_pc \in {"sim", "returned"} =>
    LET T == Len(testbenches) IN
    /\ Len(sim_calls) = mi * T + mj
    /\ ri_pc = "returned" => Len(sim_calls) = Len(rtl_codes) * T
    /\ \A k \in DOMAIN sim_calls :
         LET c == sim_calls[k] IN
         /\ c.i = (k - 1) \div T
         /\ c.j = (k - 1) % T
         /\ c.rtl = rtl_codes[c.i + 1]
         /\ c.tb = testbenches[c.j + 1]
         /\ c.cnt = IF c.i < Len(sim_results)
                    THEN sim_results[c.i + 1][c.j + 1]
                    ELSE sim_row[c.j + 1]
    /\ sim_calls # <<>> =>
         /\ sim_calls[Len(sim_calls)].rtl = ws_rtl
         /\ sim_calls[Len(sim_calls)].tb = ws_tb
    /\ \A r \in DOMAIN sim_results : Len(sim_results[r]) = T

\* a returned run over two retained candidates and two testbenches
C7_Witness ==
  /\ ri_pc = "returned"
  /\ Len(rtl_codes) = 2
  /\ Len(testbenches) = 2
  /\ Len(sim_calls) = 4

\* C8: a candidate whose syntax check failed is never simulated; the matrix
\* has one row per syntax-passing candidate.
C8_MatrixExclusion ==
  LET passed == {slot \in DOMAIN gen_verdicts : gen_verdicts[slot]}
      failed == DOMAIN gen_verdicts \ passed
  IN  /\ \A slot \in failed :
           /\ \A k \in DOMAIN rtl_codes : rtl_codes[k] # RtlText(slot - 1)
           /\ \A k \in DOMAIN sim_calls : sim_calls[k].rtl # RtlText(slot - 1)
           /\ ws_rtl # RtlText(slot - 1)
      /\ ri_pc \in {"sim", "returned"} => Len(rtl_codes) = Cardinality(passed)
      /\ (ri_pc \in {"sim", "returned"} /\ mi = Len(rtl_codes)) =>
           Len(sim_results) = Cardinality(passed)

\* a returned run in which the first candidate failed the syntax check
C8_Witness ==
  /\ ri_pc = "returned"
  /\ gen_verdicts = <<FALSE, TRUE>>
  /\ Len(sim_results) = 1
  /\ Len(sim_calls) = Len(testbenches)

\* ------------------------------------------------------------------------
\* Properties of the chat loop
\* ------------------------------------------------------------------------
\* the round limits the loops are documented with
RoundLimit ==
  IF ed = RTLEditor THEN 15 ELSE IF ed = RTLCoverageEditor THEN 3 ELSE 5

\* C9: a chat makes at most 15 (RTLEditor), 3 (RTLCoverageEditor) or 5
\* (TBCoverageEditor) rounds, is out of its loop once is_done is true, and ends.
C9_BoundedRounds ==
  /\ [](/\ llm_calls <= RoundLimit
        /\ i <= RoundLimit
        /\ is_done => pc \in {"exit", "done"}
        /\ pc \in {"exit", "done"} => llm_calls <= i + 1)
  /\ <>(pc = "done")

\* a testbench chat that used all five rounds without reaching the goal
C9_Witness ==
  /\ ed = TBCoverageEditor
  /\ pc = "done"
  /\ outcome = "returned"
  /\ llm_calls = 5
  /\ i = 5
  /\ ~is_done

\* the loop ran max_trials rounds and none of them set is_done
Exhausted ==
  /\ pc = "done"
  /\ outcome = "returned"
  /\ i = max_trials(ed)
  /\ ~is_done

SucceedWindow ==
  IF ed = RTLEditor THEN 10 ELSE IF ed = RTLCoverageEditor THEN 2 ELSE 3
FailWindow ==
  IF ed = RTLEditor THEN 6 ELSE IF ed = RTLCoverageEditor THEN 2 ELSE 3

\* C11: at every LLM call and after every round the accepted history holds at
\* most 10 / 2 / 3 entries and the rejected history at most 6 / 2 / 3 entries.
C11_BoundedHistory ==
  /\ Len(succeed_history) <= SucceedWindow
  /\ Len(fail_history) <= FailWindow

\* a testbench chat whose accepted history is full after three accepted rounds
\* and whose rejected history is full as well
C11_Witness ==
  /\ ed = TBCoverageEditor
  /\ i = 5
  /\ Len(succeed_history) = 3
  /\ succeed_history[3].round = 2
  /\ Len(fail_history) = 3

\* h is made of whole (LLM response, action output) pairs in round order
WholePairs(h) ==
  /\ Len(h) % 2 = 0
  /\ \A k \in DOMAIN h :
       IF k % 2 = 1
       THEN /\ h[k].kind = "response"
            /\ k > 1 => h[k - 1].round < h[k].round
       ELSE /\ h[k].kind = "action_output"
            /\ h[k].round = h[k - 1].round

\* C12: each retained history consists of whole (LLM response, action output)
\* pairs only, in their original order, the most recent pair last.
C12_WholePairs ==
  /\ WholePairs(succeed_history)
  /\ WholePairs(fail_history)

\* round r's (LLM response, action output) pair
RoundPair(r) ==
  <<[round |-> r, kind |-> "response"], [round |-> r, kind |-> "action_output"]>>

\* h ends with the pair of round r, after entries h0 already ended with
EndsWithPair(h, h0, r) ==
  /\ Len(h) >= 2
  /\ SubSeq(h, Len(h) - 1, Len(h)) = RoundPair(r)
  /\ Len(h) - 2 <= Len(h0)
  /\ SubSeq(h, 1, Len(h) - 2) = SubSeq(h0, Len(h0) - (Len(h) - 2) + 1, Len(h0))

\* C13: an accepted round that does not end the session empties the rejected
\* history and appends the round's pair at the end of the accepted history.
C13_AcceptHistories ==
  [][(pc = "loop" /\ i' = i + 1 /\ action_output'.is_action_executed) =>
       /\ fail_history' = <<>>
       /\ EndsWithPair(succeed_history', succeed_history, i)]_vars

\* an accepted round after a rejected one, with the accepted history overflowing
C13_Witness ==
  /\ ed = TBCoverageEditor
  /\ pc = "loop"
  /\ i = 3
  /\ action_output.is_action_executed
  /\ fail_history = <<>>
  /\ Len(succeed_history) = 3
  /\ succeed_history[1].round = 0
  /\ succeed_history[3].round = 2

\* C14: a rejected round leaves the accepted history, the tracked metrics and
\* is_done unchanged and appends the round's pair to the rejected history.
C14_RejectEffects ==
  [][(pc = "loop" /\ outcome' # "raised" /\ ~action_output'.is_action_executed) =>
       /\ UNCHANGED <<succeed_history, last_mismatch_cnt, last_coverage,
                      last_line_coverage, last_branch_coverage, is_done>>
       /\ EndsWithPair(fail_history', fail_history, i)]_vars

\* C19: every chat invocation starts its loop with is_done false and empty
\* histories, whatever an earlier invocation on the object left behind.
C19_FreshSession ==
  (pc = "loop" /\ llm_calls = 0) =>
    /\ ~is_done
    /\ succeed_history = <<>>
    /\ fail_history = <<>>

\* ------------------------------------------------------------------------
\* Properties of the start of chat and of its verdict
\* ------------------------------------------------------------------------
\* within 0.001 of 100 %
AtTarget(c) == c > Full - Tol /\ c < Full + Tol

\* C15: TBCoverageEditor.chat runs the oracle once on the starting testbench
\* before any LLM call, records the line and branch coverage it reports as
\* the tracked metrics and, if both are within 0.001 of 100 %, returns success
\* with the unchanged testbench without an LLM call.
C15_TestbenchInit ==
  [][(ed = TBCoverageEditor /\ pc = "new" /\ init_checks' # <<>>) =>
       LET baseline == init_checks'[1] IN
       /\ Len(init_checks') = 1
       /\ llm_calls' = 0
       /\ last_line_coverage' = baseline.line_coverage
       /\ last_branch_coverage' = baseline.branch_coverage
       /\ (AtTarget(baseline.line_coverage) /\ AtTarget(baseline.branch_coverage)) =>
            /\ pc' = "done"
            /\ outcome' = "returned"
            /\ is_pass' = TRUE
            /\ result' = file'
            /\ result' = committed']_vars

\* a testbench chat that returned success at once: the baseline was within the
\* tolerance of 100 % on both dimensions without being exactly 100 %
C15_Witness ==
  /\ ed = TBCoverageEditor
  /\ pc = "done"
  /\ outcome = "returned"
  /\ is_pass
  /\ llm_calls = 0
  /\ Len(init_checks) = 1
  /\ init_checks[1].line_coverage = Full - (Tol \div 2)
  /\ init_checks[1].branch_coverage = Full
  /\ result = <<TAB, "a">>

\* C16: RTLCoverageEditor.chat runs the oracle once on the starting RTL,
\* records the line coverage it reports as last_coverage, returns
\* (True, rtl_code) without an LLM call if that is 100 %, and reaches its
\* first round if it is below with syntax and simulation passing.
C16_RtlCoverageInit ==
  [][(ed = RTLCoverageEditor /\ pc = "new" /\ init_checks' # <<>>) =>
       LET baseline == init_checks'[1] IN
       /\ Len(init_checks') = 1
       /\ llm_calls' = 0
       /\ last_coverage' = baseline.line_coverage
       /\ baseline.line_coverage = Full =>
            /\ pc' = "done"
            /\ outcome' = "returned"
            /\ is_pass' = TRUE
            /\ result' = file'
       /\ (baseline.line_coverage < Full /\ baseline.is_syntax_pass
             /\ baseline.is_sim_pass) =>
            pc' = "loop"]_vars

\* C17: RTLEditor.chat records the given mismatch count as the tracked metric,
\* returns success without an LLM call if it is 0, and reaches its first round
\* otherwise.
C17_MismatchInit ==
  [][(ed = RTLEditor /\ pc = "new") =>
       /\ last_mismatch_cnt' # None
       /\ llm_calls' = 0
       /\ last_mismatch_cnt' = 0 =>
            /\ pc' = "done"
            /\ outcome' = "returned"
            /\ is_pass' = TRUE
       /\ last_mismatch_cnt' > 0 => pc' = "loop"]_vars

\* the check c reports syntax pass, simulation pass and the target metric
ReportsSuccess(c) ==
  /\ c.is_syntax_pass
  /\ c.is_sim_pass
  /\ IF ed = RTLEditor THEN c.sim_mismatch_cnt = 0
     ELSE IF ed = RTLCoverageEditor THEN AtTarget(c.line_coverage)
     ELSE AtTarget(c.line_coverage) /\ AtTarget(c.branch_coverage)

\* C18: chat returns is_pass = true only if, in this invocation, the oracle
\* reported syntax pass, simulation pass and the target metric for the
\* artifact returned: at the start, for the last accepted edit, or in the
\* final check.
C18_NoFalseSuccess ==
  (pc = "done" /\ outcome = "returned" /\ is_pass) =>
    \/ llm_calls = 0 /\ init_checks # <<>> /\ ReportsSuccess(init_checks[1])
    \/ final_check # NoCheck /\ ReportsSuccess(final_check)
    \/ /\ action_output.kind = "judged"
       /\ action_output.is_action_executed
       /\ result = committed
       /\ ReportsSuccess(action_output)

\* ------------------------------------------------------------------------
\* The verdict of run_instance
\* ------------------------------------------------------------------------
\* C20: run_instance returns is_pass = true iff the simulator reported
\* is_sim_pass = true for the cell (best_rtl_idx, best_tb_idx).
C20_VerdictIsSimPass ==
  ri_pc = "returned" => (ri_ret[1] = best_sim_pass)

\* ------------------------------------------------------------------------
\* Properties of TopAgent._run
\* ------------------------------------------------------------------------
\* C21: while the pipeline of a _run is under way no marker exists, whatever an
\* earlier run left; after a _run the marker exists if and only if the pipeline
\* returned without raising.
C21_MarkerProtocol ==
  /\ run_pc = "pipeline" => ~tag
  /\ run_pc = "done" => (tag <=> ri_pc = "returned")

\* a second run of the task failed after the first one had written the marker
C21_Witness ==
  /\ run_pc = "done"
  /\ run_count = 2
  /\ ri_pc = "raised"
  /\ run_ret = <<FALSE, "Exception">>
  /\ ~tag

\* C22: an exception of the pipeline never leaves _run; the call returns
\* (False, "Exception: ...") and the caller can go on with its next call.
C22_FailureIsolation ==
  /\ run_pc # "propagated"
  /\ (run_pc = "done" /\ ri_pc = "raised") => run_ret = <<FALSE, "Exception">>
  /\ (run_pc = "done" /\ run_count < MaxRuns) => ENABLED TopAgent_run_enter

\* the simulator raised in the first call, and the call returned
C22_Witness ==
  /\ run_pc = "done"
  /\ run_count = 1
  /\ ri_pc = "raised"
  /\ Len(rtl_codes) > 0
  /\ run_ret = <<FALSE, "Exception">>

\* ------------------------------------------------------------------------
\* Properties of the batch drivers and of the generators
\* ------------------------------------------------------------------------
\* C23: a response that is not JSON never ends a batch driver: main is not left
\* by the TypeError that the null result of the classifier causes, and when main
\* finishes every task of the batch was attempted.
C23_DecodeErrorSurvived ==
  /\ b_pc # "TypeError"
  /\ b_pc = "finished" => attempted = 0..(MaxTasks - 1)

\* C24: a generator whose response could not be decoded hands its caller an
\* error or a failure result, never a success or an artifact without content.
C24_DecodeFailureSurfaced ==
  \A k \in DOMAIN gen_rets :
    ~gen_rets[k].decoded =>
      gen_rets[k].kind = "raised" \/ gen_rets[k].success = "False"

\* C30: the count reported at the end of a run() is the count of the tokens
\* that run() consumed.
C30_SessionCounts == logged_cnt = session_cnt

\* ------------------------------------------------------------------------
\* Properties of the oracle evaluation
\* ------------------------------------------------------------------------
\* C25: a verdict whose syntax check failed reports no simulation pass, the
\* syntax error as its message, and the worst value of its metric: 0 % line and
\* branch coverage in the coverage editors, and in RTLEditor a mismatch count
\* above every count a simulation reports.
C25_SyntaxFailVerdict ==
  (action_output.kind = "judged" /\ ~action_output.is_syntax_pass) =>
    /\ ~action_output.is_sim_pass
    /\ action_output.error_msg = "syntax"
    /\ IF ed = RTLEditor
       THEN action_output.sim_mismatch_cnt > MaxMismatch
       ELSE action_output.line_coverage = 0 /\ action_output.branch_coverage = 0

\* C26: in every evaluation the simulation is called only as the second call,
\* after a check_syntax of the same evaluation that passed.
C26_SimAfterSyntax ==
  \A k \in DOMAIN evals :
    \A n \in DOMAIN evals[k] :
      evals[k][n].call = "review" =>
        /\ n = 2
        /\ evals[k][1] = [call |-> "check_syntax", result |-> "pass"]

\* a direct edit whose candidate failed the syntax check: no simulation was run
C26_Witness ==
  /\ pc = "done"
  /\ calls = 1
  /\ action_output.kind = "judged"
  /\ ~action_output.is_syntax_pass
  /\ evals = <<(<<[call |-> "check_syntax", result |-> "fail"]>>)>>

\* the latest step made an evaluation in which the checker or the simulator raised
OracleRaised ==
  /\ evals # <<>>
  /\ evals[1][Len(evals[1])].result = "raised"

\* C27: a round in which the checker or the simulator raises ends chat with the
\* exception: nothing is returned, the round enters no history, the candidate
\* was evaluated once; and after chat ended no round and no LLM call is made.
C27_OracleExceptionPropagates ==
  /\ [][(pc = "loop" /\ OracleRaised') =>
          /\ pc' = "done"
          /\ outcome' = "raised"
          /\ action_output'.kind = "exception"
          /\ Len(evals') = 1
          /\ UNCHANGED <<i, succeed_history, fail_history, is_pass, result>>]_vars
  /\ [](pc = "done" => ~ENABLED Round)

\* the simulator raised in a round after the first one
C27_Witness ==
  /\ ed = TBCoverageEditor
  /\ pc = "done"
  /\ outcome = "raised"
  /\ i > 0
  /\ llm_calls = i + 1
  /\ OracleRaised
  /\ evals[1][Len(evals[1])].call = "review"
  /\ result = NoResult

\* C28: with a recorded baseline, RTLCoverageEditor accepts an edit exactly when
\* syntax passes, simulation passes and the new line coverage is strictly
\* greater than last_coverage; an equal coverage is rejected.
C28_StrictImprovement ==
  [][(ed = RTLCoverageEditor /\ pc = "call" /\ last_coverage # None
        /\ action_output'.kind = "judged") =>
       /\ action_output'.is_action_executed <=>
            (/\ action_output'.is_syntax_pass
             /\ action_output'.is_sim_pass
             /\ action_output'.line_coverage > last_coverage)
       /\ action_output'.is_action_executed => last_coverage' = action_output'.line_coverage
       /\ ~action_output'.is_action_executed => last_coverage' = last_coverage]_vars

\* an edit that simulated correctly with a coverage equal to the recorded one
C28_Witness ==
  /\ ed = RTLCoverageEditor
  /\ pc = "done"
  /\ calls = 1
  /\ action_output.kind = "judged"
  /\ action_output.is_syntax_pass
  /\ action_output.is_sim_pass
  /\ action_output.line_coverage = last_coverage
  /\ ~action_output.is_action_executed

\* C29: a round makes one LLM call and then at most one evaluation: none when
\* the LLM call or the decoding fails or the uniqueness test rejects the action,
\* one otherwise; the loop goes on to another round only with is_done unset and
\* the round index below the bound, both looked at after the evaluation.
C29_RoundAtomicity ==
  [][pc = "loop" =>
       /\ llm_calls' = llm_calls + 1
       /\ Len(evals') <= 1
       /\ action_output'.kind \in {"not_found", "multiple"} => evals' = <<>>
       /\ (action_output' # action_output /\ action_output'.kind \in {"judged", "exception"})
            => Len(evals') = 1
       /\ pc' = "loop" => (~is_done' /\ i' = i + 1 /\ i' < max_trials(ed))
       /\ (is_done' /\ ~OracleRaised') => pc' = "exit"]_vars

\* a round whose action the uniqueness test rejected, after a round that evaluated
C29_Witness ==
  /\ pc = "loop"
  /\ i = 2
  /\ llm_calls = 2
  /\ action_output.kind \in {"not_found", "multiple"}
  /\ evals = <<>>
  /\ succeed_history # <<>>

\* l holds one line per processed task, in lexicographic order
SortedProcessed(l) ==
  /\ Len(l) = Cardinality(done_tasks)
  /\ {l[n] : n \in DOMAIN l} = {SummaryLine(visit[t + 1]) : t \in done_tasks}
  /\ \A m, n \in DOMAIN l : m < n => StrLess(l[m], l[n])

\* C31: when a run of check_circuit_type.main has ended, at the end of main or
\* on a response that is not JSON, the summary file holds, after what it held
\* before the run, one line per processed task, the lines in lexicographic
\* order whatever the order of the visits.
C31_SummaryFile ==
  (driver = "check_circuit_type" /\ b_pc \in {"finished", "TypeError"}) =>
    \E before \in {<<>>, <<SummaryLine(<<51>>)>>} :
      \E l \in {summary} \cup {<<>>} :
        summary_file = before \o l /\ SortedProcessed(l)

\* the same, for the runs that reach the end of main
C31_SummaryFileOfFinishedRun ==
  (driver = "check_circuit_type" /\ b_pc = "finished") =>
    \E before \in {<<>>, <<SummaryLine(<<51>>)>>} :
      \E l \in {summary} \cup {<<>>} :
        summary_file = before \o l /\ SortedProcessed(l)

\* ------------------------------------------------------------------------
\* C32: a spec classified ambiguous is fixed and classified again in turn; the
\* loop ends at the first classification "unambiguous" (after exactly one
\* iteration when the first fix succeeds), makes at most max_fix_iter fix
\* iterations, ends in every run, and writes out the latest spec text, not the
\* one it was started with.
\* ------------------------------------------------------------------------
C32_FixLoopState ==
  /\ fix_iter <= max_fix_iter
  /\ fx_pc = "fix" => classification = "ambiguous" /\ fix_iter < max_fix_iter
  /\ (fx_pc = "classify" /\ fix_iter > 0) => classification = "ambiguous"
  /\ classification = "unambiguous" => fx_pc = "done"
  /\ fx_pc = "done" => persisted = spec_text
  /\ (fx_pc = "done" /\ classification = "ambiguous") => fix_iter = max_fix_iter

C32_FixLoop == [](C32_FixLoopState) /\ <>(fx_pc = "done")

C32_Witness ==
  /\ fx_pc = "done"
  /\ fix_iter = 1
  /\ classification = "unambiguous"
  /\ persisted = spec_text
  /\ persisted # original_spec

\* ------------------------------------------------------------------------
\* C33: the indices of the matrix are generation slots: every simulated row i
\* holds the RTL generated in slot i, and after run_instance returned the
\* content of rtl_best.sv is the content of rtl_{best_rtl_idx}.sv.
\* ------------------------------------------------------------------------
C33_IndexIsSlot ==
  /\ \A n \in DOMAIN sim_calls : sim_calls[n].rtl = RtlText(sim_calls[n].i)
  /\ ri_pc = "returned" =>
       \E f \in out_files :
         /\ f.name = <<"rtl_best">>
         /\ [name |-> <<"rtl", best_rtl_idx>>, content |-> f.content] \in out_files

\* the same, for the runs in which no candidate failed its syntax check
C33_IndexIsSlotWhenAllPass ==
  (\A n \in DOMAIN gen_verdicts : gen_verdicts[n]) => C33_IndexIsSlot

\* ------------------------------------------------------------------------
\* C34: whenever chat is over, by a return or by an exception, the artifact on
\* disk is the last committed artifact (the starting artifact or the result of
\* the latest accepted edit).
\* ------------------------------------------------------------------------
C34_WorkingCopyCommitted == pc = "done" => file = committed

\* the same for the exits by a return, up to the expansion of tabs
C34_CommittedOnReturn ==
  (pc = "done" /\ outcome = "returned") => expandtabs(file) = expandtabs(committed)

\* chat left by an oracle exception with the candidate still on disk
C34_CandidateLeft ==
  /\ pc = "done"
  /\ outcome = "raised"
  /\ action_output.kind = "exception"
  /\ expandtabs(file) # expandtabs(committed)

\* ------------------------------------------------------------------------
\* C35: a round whose response names a command other than the advertised edit
\* action (write_rtl / write_tb, reset) changes neither the artifact on disk
\* nor the session state held by the editor (is_done, the tracked metrics, the
\* history).
\* ------------------------------------------------------------------------
C35_OnlyAdvertisedAction ==
  [][(pc = "loop" /\ action_input'.command \in OtherCommands) =>
       UNCHANGED <<file, is_done, history, last_mismatch_cnt, last_coverage,
                   last_line_coverage, last_branch_coverage>>]_vars

\* ------------------------------------------------------------------------
\* C36: when the pipeline of a run ends with no usable RTL candidate (rtl_num
\* is 0, or every candidate generated failed its syntax check), the run returns
\* a failure verdict, no exception leaves it, and no marker exists afterwards.
\* ------------------------------------------------------------------------
NoUsableCandidate ==
  \/ rtl_num = 0
  \/ IF is_ablation
     THEN ri_pc = "returned" /\ ~ri_ret[1]
     ELSE Len(gen_verdicts) = rtl_num /\ \A n \in DOMAIN gen_verdicts : ~gen_verdicts[n]

FailureVerdictNoMarker == run_ret[1] = FALSE /\ ~tag

C36_NoUsableCandidate ==
  /\ run_pc # "propagated"
  /\ (run_pc = "done" /\ NoUsableCandidate) => FailureVerdictNoMarker

\* the same for the runs of run_instance (is_ablation unset)
C36_NoUsableCandidateOfRunInstance ==
  /\ run_pc # "propagated"
  /\ (run_pc = "done" /\ ~is_ablation /\ NoUsableCandidate) => FailureVerdictNoMarker

\* the only candidate of a run_instance failed its syntax check, and the run
\* returned
C36_Witness ==
  /\ run_pc = "done"
  /\ ~is_ablation
  /\ rtl_num = 1
  /\ gen_verdicts = <<FALSE>>
  /\ ri_pc = "raised"
  /\ run_ret = <<FALSE, "Exception">>
  /\ ~tag

\* ------------------------------------------------------------------------
\* C37: on every path through TBCoverageEditor.chat that returns, is_pass is
\* true exactly when the line coverage the oracle reported for the returned
\* testbench is within 0.001 of 100 %, whatever its branch coverage.
\* ------------------------------------------------------------------------
\* the check of the returned testbench: the final check after the loop, the
\* baseline check at an early return
ReturnedCheck ==
  IF final_check # NoCheck THEN final_check ELSE init_checks[Len(init_checks)]

\* a coverage within 0.001 of 100 %
WithinTolerance(c) == c > Full - Tol /\ c < Full + Tol

C37_LineCoverageCriterion ==
  (ed = TBCoverageEditor /\ pc = "done" /\ outcome = "returned") =>
    (is_pass <=> WithinTolerance(ReturnedCheck.line_coverage))

\* after the loop is_pass is true exactly when the final line coverage is
\* within 0.001 of 100 %, whatever the branch coverage; at the early return
\* it is true exactly when both the line and the branch coverage of the
\* baseline are
C37_SuccessCriterionByPath ==
  (ed = TBCoverageEditor /\ pc = "done" /\ outcome = "returned") =>
    IF final_check # NoCheck
    THEN is_pass <=> WithinTolerance(final_check.line_coverage)
    ELSE is_pass <=> (WithinTolerance(ReturnedCheck.line_coverage)
                        /\ WithinTolerance(ReturnedCheck.branch_coverage))

\* chat returned success after the loop for a testbench whose line coverage is
\* below 100 % but within the tolerance and whose branch coverage is not
C37_Witness ==
  /\ ed = TBCoverageEditor
  /\ pc = "done"
  /\ outcome = "returned"
  /\ final_check # NoCheck
  /\ is_pass
  /\ final_check.line_coverage < Full
  /\ ~WithinTolerance(final_check.branch_coverage)

\* ------------------------------------------------------------------------
\* C38: chat returns (True, "All scenarios match the specification.") only if
\* at least one scenario was parsed from the response and every parsed scenario
\* has if_matches "yes".
\* ------------------------------------------------------------------------
C38_SuccessNeedsScenario ==
  (cc_pc \in {"returned", "done"} /\ cc_ret[1]) =>
    LET scenario_results == parse_response(cc_content).scenarios IN
    /\ DOMAIN scenario_results # {}
    /\ \A name \in DOMAIN scenario_results : scenario_results[name]["if_matches"] = "yes"

\* the same without the first conjunct
C38_SuccessNeedsNoMismatch ==
  (cc_pc \in {"returned", "done"} /\ cc_ret[1]) =>
    LET scenario_results == parse_response(cc_content).scenarios IN
    \A name \in DOMAIN scenario_results : scenario_results[name]["if_matches"] = "yes"

\* a response in the form of EXAMPLE_OUTPUT whose scenario does not match was
\* reported as a success
C38_MismatchReportedAsSuccess ==
  /\ cc_pc = "done"
  /\ cc_content = <<"\"Scenario1\": {", ReasoningLine, "\"if matches\": \"No\",", UnmatchedLine>>
  /\ cc_ret[1]

\* ------------------------------------------------------------------------
\* C39: for every list of stimulus records of the documented form (the keys
\* scenario and input variable), the harness prints one output record per
\* stimulus record, in the same order, each with the scenario name of its
\* stimulus and one output entry per input entry.
\* ------------------------------------------------------------------------
DocumentedForm(stimulus) == DOMAIN stimulus = {"scenario", "input variable"}

OneOutputPerStimulus ==
  /\ h_pc = "printed"
  /\ Len(tb_outputs) = Len(stimulus_data.value)
  /\ \A k \in DOMAIN tb_outputs :
       /\ tb_outputs[k]["scenario"] = stimulus_data.value[k]["scenario"]
       /\ Len(tb_outputs[k]["output variable"])
            = Len(stimulus_data.value[k]["input variable"])

C39_RoundTrip ==
  (/\ h_pc # "main"
   /\ stimulus_data.type = "list"
   /\ \A k \in DOMAIN stimulus_data.value : DocumentedForm(stimulus_data.value[k]))
    => OneOutputPerStimulus

\* the same for the lists whose records all carry a check_en key
C39_RoundTripOfCheckedRecords ==
  (/\ h_pc # "main"
   /\ stimulus_data.type = "list"
   /\ \A k \in DOMAIN stimulus_data.value : check_en_in(stimulus_data.value[k]))
    => OneOutputPerStimulus

====
